---------------------------- MODULE Spec2Model ----------------------------
(***************************************************************************)
(* Model of the chat query-resolution route (src/src/app/api/chat/route.ts) *)
(* of ppiof-ads-report: the POST /api/chat orchestrator, the gateway        *)
(* adapter and the rule-based answer composer.                              *)
(*                                                                         *)
(* Text is modelled by TLA+ strings, handled character by character with   *)
(* Len, SubSeq and \o.  Money is kept in integer cents; ratios are kept as *)
(* numerator/denominator pairs and rounded only when they are formatted.   *)
(***************************************************************************)
EXTENDS Integers, Sequences, FiniteSets, TLC

(***************************************************************************)
(* Bounds of the model.                                                    *)
(***************************************************************************)
\* number of chat requests that may be in flight together
NumRequests == 2

(***************************************************************************)
(* Program constants.                                                      *)
(***************************************************************************)
QuestionMin == 2
QuestionMax == 500
ContentMin == 1
ContentMax == 2000
HistoryMax == 16

(***************************************************************************)
(* Strings.                                                                *)
(***************************************************************************)
Char(s, i) == SubSeq(s, i, i)

Min2(a, b) == IF a < b THEN a ELSE b
Max2(a, b) == IF a > b THEN a ELSE b

\* the characters JavaScript's \s and String.prototype.trim treat as blank,
\* as far as the texts of the model use them
SpaceSet == {" ", "\n", "\t", "\r"}
IsSpace(c) == c \in SpaceSet

RECURSIVE Repeat(_, _)
Repeat(s, n) == IF n <= 0 THEN ""
                ELSE IF n = 1 THEN s
                ELSE Repeat(s, n \div 2) \o Repeat(s, n - (n \div 2))

\* the first position at or after i, and the last at or before i, whose
\* character is not blank (Len(s) + 1 and 0 when there is none)
RECURSIVE FirstNonBlank(_, _)
FirstNonBlank(s, i) ==
  IF i > Len(s) \/ ~IsSpace(Char(s, i)) THEN i ELSE FirstNonBlank(s, i + 1)

RECURSIVE LastNonBlank(_, _)
LastNonBlank(s, i) ==
  IF i < 1 \/ ~IsSpace(Char(s, i)) THEN i ELSE LastNonBlank(s, i - 1)

\* String.prototype.trim
Trim(s) == SubSeq(s, FirstNonBlank(s, 1), LastNonBlank(s, Len(s)))

\* String.prototype.includes
Includes(s, sub) ==
  \E i \in 1..(Len(s) - Len(sub) + 1) : SubSeq(s, i, i + Len(sub) - 1) = sub

UpperChars == "ABCDEFGHIJKLMNOPQRSTUVWXYZ"
LowerChars == "abcdefghijklmnopqrstuvwxyz"
DigitChars == "0123456789"

LowerSet == {Char(LowerChars, i) : i \in 1..26}
UpperSet == {Char(UpperChars, i) : i \in 1..26}
DigitSet == {Char(DigitChars, i) : i \in 1..10}
WordSet == LowerSet \cup UpperSet \cup DigitSet \cup {"_"}

UpperToLower ==
  [c \in UpperSet |-> Char(LowerChars, CHOOSE i \in 1..26 : Char(UpperChars, i) = c)]
LowerToUpper ==
  [c \in LowerSet |-> Char(UpperChars, CHOOSE i \in 1..26 : Char(LowerChars, i) = c)]
DigitValues ==
  [c \in DigitSet |-> (CHOOSE i \in 1..10 : Char(DigitChars, i) = c) - 1]

IsLowerAlpha(c) == c \in LowerSet
IsDigit(c) == c \in DigitSet
\* \w of a JavaScript regular expression
IsWordChar(c) == c \in WordSet

LowerChar(c) == IF c \in UpperSet THEN UpperToLower[c] ELSE c

\* String.prototype.toLowerCase
RECURSIVE ToLower(_)
ToLower(s) ==
  IF Len(s) = 0 THEN ""
  ELSE IF Len(s) = 1 THEN LowerChar(s)
  ELSE LET h == Len(s) \div 2
       IN ToLower(SubSeq(s, 1, h)) \o ToLower(SubSeq(s, h + 1, Len(s)))

\* Array.prototype.join
RECURSIVE Join(_, _)
Join(parts, sep) ==
  IF Len(parts) = 0 THEN ""
  ELSE IF Len(parts) = 1 THEN parts[1]
  ELSE parts[1] \o sep \o Join(Tail(parts), sep)

\* Array.prototype.filter
RECURSIVE SelectSeqOf(_, _)
SelectSeqOf(seq, keep) ==
  IF Len(seq) = 0 THEN <<>>
  ELSE (IF Head(seq) \in keep THEN <<Head(seq)>> ELSE <<>>)
         \o SelectSeqOf(Tail(seq), keep)

(***************************************************************************)
(* Request validation: ChatMessageSchema and ChatSchema (zod).              *)
(* A JSON value of the body is a tagged record: t = "str" carries a string *)
(* in v, t = "arr" an array in v, t = "none" stands for a missing field.   *)
(***************************************************************************)
Roles == {"user", "assistant"}

Issue(field, index, sub, code) ==
  [field |-> field, index |-> index, sub |-> sub, code |-> code]

\* StringIssues without the trim: the lengths are those of the raw string
StringIssuesNoTrim(val, lo, hi, field, index, sub) ==
  IF val.t # "str" THEN {Issue(field, index, sub, "invalid_type")}
  ELSE (IF Len(val.v) < lo THEN {Issue(field, index, sub, "too_small")} ELSE {})
         \cup (IF Len(val.v) > hi THEN {Issue(field, index, sub, "too_big")} ELSE {})

\* z.string().trim().min(lo).max(hi): the issues of one string field
StringIssues(val, lo, hi, field, index, sub) ==
  IF val.t # "str" THEN {Issue(field, index, sub, "invalid_type")}
  ELSE LET n == Len(Trim(val.v))
       IN (IF n < lo THEN {Issue(field, index, sub, "too_small")} ELSE {})
            \cup (IF n > hi THEN {Issue(field, index, sub, "too_big")} ELSE {})

\* ChatMessageSchema, applied to the message at zero-based position index
ChatMessageIssues(msg, index) ==
  (IF msg.role \in Roles THEN {}
   ELSE {Issue("history", index, "role", "invalid_enum_value")})
    \cup StringIssues([t |-> "str", v |-> msg.content], ContentMin, ContentMax,
                      "history", index, "content")

\* ChatSchema.parse: every issue of the body; the parse throws a ZodError
\* exactly when this set is not empty
ChatSchemaIssues(body) ==
  StringIssues(body.question, QuestionMin, QuestionMax, "question", -1, "")
    \cup (IF body.history.t = "none" THEN {}
          ELSE (IF Len(body.history.v) > HistoryMax
                THEN {Issue("history", -1, "", "too_big")} ELSE {})
                 \cup UNION {ChatMessageIssues(body.history.v[i], i - 1) :
                              i \in 1..Len(body.history.v)})

\* the value ChatSchema.parse returns for a body without issues: the
\* question and every content trimmed, a missing history replaced by []
ChatSchemaParse(body) ==
  [question |-> Trim(body.question.v),
   history |-> IF body.history.t = "none" THEN <<>>
               ELSE [i \in 1..Len(body.history.v) |->
                       [role |-> body.history.v[i].role,
                        content |-> Trim(body.history.v[i].content)]]]

(***************************************************************************)
(* Gateway adapter: configuration and extraction of the response text.     *)
(* The environment is the record of the three API key variables ("" when   *)
(* unset).  A payload is [t, output_text, output]: t = "object" for a JSON *)
(* object; output_text a tagged value; output a sequence of blocks, each a *)
(* sequence of content items [text, output_text] of tagged values.         *)
(***************************************************************************)
NoConfig == [kind |-> "none", apiKey |-> ""]

\* getAiConfig without the check that a key is set: the OpenAI
\* configuration is returned even with an empty key
getAiConfigUnchecked(env) ==
  IF env.AI_GATEWAY_API_KEY # ""
  THEN [kind |-> "gateway", apiKey |-> env.AI_GATEWAY_API_KEY]
  ELSE [kind |-> "openai", apiKey |-> env.OPENAI_API_KEY]

getAiConfig(env) ==
  LET gatewayKey == IF env.AI_GATEWAY_API_KEY # "" THEN env.AI_GATEWAY_API_KEY
                    ELSE env.VERCEL_AI_GATEWAY_API_KEY
  IN IF gatewayKey # "" THEN [kind |-> "gateway", apiKey |-> gatewayKey]
     ELSE IF env.OPENAI_API_KEY # "" THEN [kind |-> "openai", apiKey |-> env.OPENAI_API_KEY]
     ELSE NoConfig

IsText(val) == val.t = "str" /\ Trim(val.v) # ""

\* the text one content item contributes: text first, then output_text
ContentParts(content) ==
  IF IsText(content.text) THEN <<Trim(content.text.v)>>
  ELSE IF IsText(content.output_text) THEN <<Trim(content.output_text.v)>>
  ELSE <<>>

RECURSIVE BlockParts(_)
BlockParts(block) ==
  IF Len(block) = 0 THEN <<>>
  ELSE ContentParts(Head(block)) \o BlockParts(Tail(block))

RECURSIVE OutputParts(_)
OutputParts(output) ==
  IF Len(output) = 0 THEN <<>>
  ELSE BlockParts(Head(output)) \o OutputParts(Tail(output))

\* extractResponseText without the trim of output_text
extractResponseTextRaw(payload) ==
  IF payload.t # "object" THEN ""
  ELSE IF IsText(payload.output_text) THEN payload.output_text.v
  ELSE Trim(Join(OutputParts(payload.output), "\n"))

extractResponseText(payload) ==
  IF payload.t # "object" THEN ""
  ELSE IF IsText(payload.output_text) THEN Trim(payload.output_text.v)
  ELSE Trim(Join(OutputParts(payload.output), "\n"))

(***************************************************************************)
(* Numbers and their formatting.  A ratio is a record [n, d] with d > 0.   *)
(* Money is counted in cents.  Rounding is half up; all values are >= 0.   *)
(***************************************************************************)
Null == -1
OrZero(x) == IF x = Null THEN 0 ELSE x

RECURSIVE Gcd(_, _)
Gcd(a, b) == IF b = 0 THEN a ELSE Gcd(b, a % b)

\* the ratio n / d in lowest terms
Rat(n, d) == LET g == Gcd(n, d) IN [n |-> n \div g, d |-> d \div g]
RatLess(a, b) == a.n * b.d < b.n * a.d
RatEq(a, b) == a.n * b.d = b.n * a.d
RatDiv(a, b) ==
  LET x == Rat(a.n, b.n)
      y == Rat(b.d, a.d)
  IN Rat(x.n * y.n, x.d * y.d)
RatMax(a, b) == IF RatLess(a, b) THEN b ELSE a

RoundDiv(n, d) == (2 * n + d) \div (2 * d)

Pad2(k) == IF k < 10 THEN "0" \o ToString(k) ELSE ToString(k)
Pad3(k) == IF k < 10 THEN "00" \o ToString(k)
           ELSE IF k < 100 THEN "0" \o ToString(k) ELSE ToString(k)

\* en-US grouping of a non-negative integer
RECURSIVE Grouped(_)
Grouped(k) == IF k < 1000 THEN ToString(k)
              ELSE Grouped(k \div 1000) \o "," \o Pad3(k % 1000)

\* Number.prototype.toFixed(2) and toFixed(1) of the ratio r
ToFixed2(r) == LET h == RoundDiv(r.n * 100, r.d)
               IN ToString(h \div 100) \o "." \o Pad2(h % 100)
ToFixed1(r) == LET h == RoundDiv(r.n * 10, r.d)
               IN ToString(h \div 10) \o "." \o ToString(h % 10)

\* Intl.NumberFormat('en-US', currency USD, 2 digits) of r cents
formatCurrency(r) == LET c == RoundDiv(r.n, r.d)
                     IN "$" \o Grouped(c \div 100) \o "." \o Pad2(c % 100)

\* Intl.NumberFormat('en-US', maximumFractionDigits 0) of the ratio r
formatNumber(r) == Grouped(RoundDiv(r.n, r.d))

RECURSIVE SumOf(_, _)
SumOf(rows, field) ==
  IF Len(rows) = 0 THEN 0 ELSE Head(rows)[field] + SumOf(Tail(rows), field)

\* account-wide CTR in percent, CPC in cents and CPM in cents
overallCtr(campaigns) ==
  LET clicks == SumOf(campaigns, "clicks")
      impressions == SumOf(campaigns, "impressions")
  IN IF impressions > 0 THEN Rat(clicks * 100, impressions) ELSE Rat(0, 1)

averageCpc(campaigns) ==
  LET clicks == SumOf(campaigns, "clicks")
      spend == SumOf(campaigns, "spend")
  IN IF clicks > 0 THEN Rat(spend, clicks) ELSE Rat(0, 1)

averageCpm(campaigns) ==
  LET impressions == SumOf(campaigns, "impressions")
      spend == SumOf(campaigns, "spend")
  IN IF impressions > 0 THEN Rat(spend * 1000, impressions) ELSE Rat(0, 1)

(***************************************************************************)
(* Text normalizer.                                                        *)
(***************************************************************************)
\* the replacement of every character outside [a-z0-9\s] by a space, after
\* lower-casing
RECURSIVE StripPunct(_)
StripPunct(s) ==
  IF Len(s) = 0 THEN ""
  ELSE IF Len(s) = 1
       THEN (IF IsLowerAlpha(s) \/ IsDigit(s) \/ IsSpace(s) THEN s ELSE " ")
  ELSE LET h == Len(s) \div 2
       IN StripPunct(SubSeq(s, 1, h)) \o StripPunct(SubSeq(s, h + 1, Len(s)))

\* the maximal runs of non-blank characters of s, left to right
RECURSIVE FieldsFrom(_, _)
FieldsFrom(s, from) ==
  LET starts == {i \in from..Len(s) : ~IsSpace(Char(s, i))}
  IN IF starts = {} THEN <<>>
     ELSE LET lo == CHOOSE i \in starts : \A j \in starts : i <= j
              ends == {i \in lo..Len(s) : i = Len(s) \/ IsSpace(Char(s, i + 1))}
              hi == CHOOSE i \in ends : \A j \in ends : i <= j
          IN <<SubSeq(s, lo, hi)>> \o FieldsFrom(s, hi + 1)

Fields(s) == FieldsFrom(s, 1)

normalizeText(value) == Join(Fields(StripPunct(ToLower(value))), " ")

LongTokens(fields) ==
  SelectSeqOf(fields, {fields[i] : i \in {j \in 1..Len(fields) : Len(fields[j]) > 1}})

splitTokens(value) == LongTokens(Fields(StripPunct(ToLower(value))))

(***************************************************************************)
(* Regular-expression helpers.                                             *)
(***************************************************************************)
\* w occurs in s at position i between two word boundaries (\bw\b)
WordAt(s, w, i) ==
  /\ i >= 1
  /\ i + Len(w) - 1 <= Len(s)
  /\ SubSeq(s, i, i + Len(w) - 1) = w
  /\ (i = 1 \/ ~IsWordChar(Char(s, i - 1)))
  /\ (i + Len(w) - 1 = Len(s) \/ ~IsWordChar(Char(s, i + Len(w))))

HasWord(s, w) == \E i \in 1..Len(s) : WordAt(s, w, i)

HasAnyWord(s, ws) == \E w \in ws : HasWord(s, w)

DigitValue(c) == DigitValues[c]

\* the smallest member of a non-empty set of integers
MinOf(S) == CHOOSE x \in S : \A y \in S : x <= y

\* the first position at or after from whose character is not blank
\* (Len(s) + 1 when there is none): where a greedy \s* or \s+ stops
SkipSpaces(s, from) == FirstNonBlank(s, from)

\* the first position at or after i whose character is not a digit
RECURSIVE FirstNonDigit(_, _)
FirstNonDigit(s, i) ==
  IF i > Len(s) \/ ~IsDigit(Char(s, i)) THEN i ELSE FirstNonDigit(s, i + 1)

\* \d{1,2}\b at position p: the number of digits matched, 0 when it fails
\* (a run of one or two digits that ends at a word boundary)
Digits12At(s, p) ==
  IF p > Len(s) \/ ~IsDigit(Char(s, p)) THEN 0
  ELSE IF p + 1 <= Len(s) /\ IsDigit(Char(s, p + 1))
       THEN (IF p + 2 > Len(s) \/ ~IsWordChar(Char(s, p + 2)) THEN 2 ELSE 0)
  ELSE (IF p + 1 > Len(s) \/ ~IsWordChar(Char(s, p + 1)) THEN 1 ELSE 0)

\* Number() of the run of k digits at position p
NumberAt(s, p, k) ==
  IF k = 2 THEN 10 * DigitValue(Char(s, p)) + DigitValue(Char(s, p + 1))
  ELSE DigitValue(Char(s, p))

(***************************************************************************)
(* Metric detector.                                                        *)
(***************************************************************************)
TopNWords == {"top", "best", "highest", "lowest", "worst", "least", "most"}

\* \b(top|...|most)\s+(\d{1,2})\b at position i: the position of the
\* captured count, 0 when the pattern does not match there
TopNCountAt(s, i) ==
  LET ws == {w \in TopNWords :
               /\ i + Len(w) - 1 <= Len(s)
               /\ SubSeq(s, i, i + Len(w) - 1) = w
               /\ (i = 1 \/ ~IsWordChar(Char(s, i - 1)))
               /\ SkipSpaces(s, i + Len(w)) > i + Len(w)
               /\ Digits12At(s, SkipSpaces(s, i + Len(w))) > 0}
  IN IF ws = {} THEN 0
     ELSE SkipSpaces(s, i + Len(CHOOSE w \in ws : TRUE))

\* the position of the count of the first match at or after position i,
\* 0 when the pattern matches nowhere
RECURSIVE TopNCountFrom(_, _)
TopNCountFrom(s, i) ==
  LET Or(p) == IF p > 0 THEN p ELSE TopNCountFrom(s, i + 1)
  IN IF i > Len(s) THEN 0 ELSE Or(TopNCountAt(s, i))

\* findTopN without Math.min(Math.max(1, n), 10): the captured count as it is
findTopNUnclamped(query) ==
  LET Count(s, p) == IF p = 0 THEN 1 ELSE NumberAt(s, p, Digits12At(s, p))
      In(s) == Count(s, TopNCountFrom(s, 1))
  IN In(ToLower(query))

findTopN(query) ==
  LET Clamp(n) == Min2(Max2(1, n), 10)
      Count(s, p) == IF p = 0 THEN 1 ELSE Clamp(NumberAt(s, p, Digits12At(s, p)))
      In(s) == Count(s, TopNCountFrom(s, 1))
  IN In(ToLower(query))

detectMetric(query) ==
  LET Of(q) ==
     IF Includes(q, "cost per click") \/ HasWord(q, "cpc") THEN "cpc"
     ELSE IF Includes(q, "cost per thousand") \/ HasWord(q, "cpm") THEN "cpm"
     ELSE IF Includes(q, "click through rate") \/ HasWord(q, "ctr") THEN "ctr"
     ELSE IF Includes(q, "impression") THEN "impressions"
     ELSE IF Includes(q, "click") THEN "clicks"
     ELSE IF Includes(q, "result") \/ Includes(q, "conversion") THEN "results"
     ELSE IF Includes(q, "spend") \/ Includes(q, "cost") \/ Includes(q, "budget")
          THEN "spend"
     ELSE "none"
  IN Of(ToLower(query))

\* detectOrder without isCostMetric: every metric is ordered as a volume
detectOrderNoFlip(query, metric) ==
  LET Of(q) ==
     IF HasAnyWord(q, {"lowest", "least", "min", "bottom"}) THEN "asc"
     ELSE IF HasAnyWord(q, {"highest", "most", "max", "top"}) THEN "desc"
     ELSE IF Includes(q, "best") THEN "desc"
     ELSE IF Includes(q, "worst") THEN "asc"
     ELSE "desc"
  IN Of(ToLower(query))

detectOrder(query, metric) ==
  LET isCostMetric == metric = "cpc" \/ metric = "cpm"
      Of(q) ==
     IF HasAnyWord(q, {"lowest", "least", "min", "bottom"}) THEN "asc"
     ELSE IF HasAnyWord(q, {"highest", "most", "max", "top"}) THEN "desc"
     ELSE IF Includes(q, "best") THEN (IF isCostMetric THEN "asc" ELSE "desc")
     ELSE IF Includes(q, "worst") THEN (IF isCostMetric THEN "desc" ELSE "asc")
     ELSE IF isCostMetric THEN "asc" ELSE "desc"
  IN Of(ToLower(query))

(***************************************************************************)
(* Aggregate calculator: the derived rows of buildRuleBasedAnswer.         *)
(* ctr is in percent, safeCpc and safeCpm in cents; efficiencyScore is     *)
(* ctr / max(cpc in dollars, 0.01) = ctr * 100 / max(cpc in cents, 1).     *)
(***************************************************************************)
DerivedCtr(row) ==
  IF row.impressions > 0 THEN Rat(row.clicks * 100, row.impressions) ELSE Rat(0, 1)

DerivedSafeCpc(row) ==
  IF row.clicks > 0 THEN Rat(row.spend, row.clicks) ELSE Rat(OrZero(row.cpc), 1)

DerivedSafeCpm(row) ==
  IF row.impressions > 0 THEN Rat(row.spend * 1000, row.impressions)
  ELSE Rat(OrZero(row.cpm), 1)

DerivedEfficiency(ad) ==
  IF ad.impressions > 0 /\ ad.clicks > 0
  THEN Rat(ad.clicks * 100 * 100, ad.impressions * Max2(OrZero(ad.cpc), 1))
  ELSE Rat(0, 1)

\* one element of derivedAds: the fields the map of lines 418-427 adds
DerivedAd(ad) ==
  [ctr |-> DerivedCtr(ad),
   safeCpc |-> DerivedSafeCpc(ad),
   safeCpm |-> DerivedSafeCpm(ad),
   efficiencyScore |-> DerivedEfficiency(ad)]

\* left.ctr / Math.max(left.safeCpc, 0.01) of a derived campaign
CtrPerCpc(row) ==
  RatDiv(RatDiv(DerivedCtr(row), Rat(1, 100)), RatMax(DerivedSafeCpc(row), Rat(1, 1)))

\* Array.prototype.sort, which is stable: Less(a, b) stands for a negative
\* result of the comparator
StableSort(items, Less(_, _)) ==
  LET n == Len(items)
      Rank(i) == Cardinality({j \in 1..n :
                    \/ Less(items[j], items[i])
                    \/ (~Less(items[i], items[j]) /\ j < i)}) + 1
  IN [r \in 1..n |-> items[CHOOSE i \in 1..n : Rank(i) = r]]

\* a sort that leaves records with equal keys in the reverse of their order
SortByKeyReversingTies(items, asc) ==
  StableSort([i \in 1..Len(items) |-> items[Len(items) + 1 - i]],
             LAMBDA a, b : IF asc THEN RatLess(a.k, b.k) ELSE RatLess(b.k, a.k))

\* the sort of records with a key k (a ratio): ascending when asc,
\* descending otherwise
StableSortByKey(items, asc) ==
  StableSort(items, LAMBDA a, b : IF asc THEN RatLess(a.k, b.k) ELSE RatLess(b.k, a.k))

Keyed(rows, Key(_)) == [i \in 1..Len(rows) |-> [v |-> rows[i], k |-> Key(rows[i])]]
Values(items) == [i \in 1..Len(items) |-> items[i].v]

\* Array.prototype.slice(0, n)
Take(seq, n) == SubSeq(seq, 1, Min2(n, Len(seq)))

\* Array.prototype.filter, by a predicate
Filter(seq, Keep(_)) ==
  LET idx == {i \in 1..Len(seq) : Keep(seq[i])}
  IN [r \in 1..Cardinality(idx) |->
        seq[CHOOSE i \in idx : Cardinality({j \in idx : j <= i}) = r]]

\* Array.prototype.find, as a sequence of zero or one element
FindFirst(seq, Test(_)) ==
  LET hits == {i \in 1..Len(seq) : Test(seq[i])}
  IN IF hits = {} THEN <<>> ELSE <<seq[MinOf(hits)]>>

RECURSIVE Flatten(_)
Flatten(seqs) == IF Len(seqs) = 0 THEN <<>> ELSE Head(seqs) \o Flatten(Tail(seqs))

(***************************************************************************)
(* Entity resolver.                                                        *)
(***************************************************************************)
Quote == "\""

\* /"([^"]{2,maxLen})"/ at position i: the position of the closing quote,
\* 0 when the pattern does not match there
QuotedEndAt(s, i, maxLen) ==
  IF i > Len(s) \/ Char(s, i) # Quote THEN 0
  ELSE LET closing == {j \in (i + 1)..Len(s) : Char(s, j) = Quote}
       IN IF closing = {} THEN 0
          ELSE LET j == MinOf(closing)
               IN IF j - i - 1 >= 2 /\ j - i - 1 <= maxLen THEN j ELSE 0

\* matchAll of the quoted-name pattern from position from: the captures
\* (a match starts at a quote)
RECURSIVE QuotedFrom(_, _, _)
QuotedFrom(s, from, maxLen) ==
  LET Emit(i, j) == IF j > 0
                    THEN <<SubSeq(s, i + 1, j - 1)>> \o QuotedFrom(s, j + 1, maxLen)
                    ELSE QuotedFrom(s, i + 1, maxLen)
      At(opens) == IF opens = {} THEN <<>>
                   ELSE Emit(MinOf(opens), QuotedEndAt(s, MinOf(opens), maxLen))
  IN At({i \in from..Len(s) : Char(s, i) = Quote})

QuotedNames(s, maxLen) == QuotedFrom(s, 1, maxLen)

\* the characters "." of a regular expression does not match
IsLineEnd(c) == c \in {"\n", "\r"}

\* /(?:^|\n)\s*\d+\.\s(.+?)\s[dashes]\s/ at position i: the capture and the
\* last position of the match as [lo, hi, end], end = 0 when it fails
RankedAt(s, i, dashes) ==
  LET fail == [lo |-> 0, hi |-> 0, end |-> 0]
      p0 == IF i = 1 THEN 1
            ELSE IF i <= Len(s) /\ Char(s, i) = "\n" THEN i + 1 ELSE 0
  IN IF p0 = 0 THEN fail
     ELSE LET p == SkipSpaces(s, p0)
              p2 == FirstNonDigit(s, p)
          IN IF p2 = p \/ p2 + 2 > Len(s) \/ Char(s, p2) # "."
                  \/ ~IsSpace(Char(s, p2 + 1))
             THEN fail
             ELSE LET c == p2 + 2
                      stop == MinOf({k \in c..Len(s) : IsLineEnd(Char(s, k))}
                                      \cup {Len(s) + 1})
                      ends == {e \in c..(stop - 1) :
                                 /\ e + 3 <= Len(s)
                                 /\ IsSpace(Char(s, e + 1))
                                 /\ Char(s, e + 2) \in dashes
                                 /\ IsSpace(Char(s, e + 3))}
                  IN IF ends = {} THEN fail
                     ELSE [lo |-> c, hi |-> MinOf(ends), end |-> MinOf(ends) + 3]

\* matchAll of the numbered-line pattern from position from: the captures
\* (a match starts at the first position or at a line feed)
RECURSIVE RankedFrom(_, _, _)
RankedFrom(s, from, dashes) ==
  LET Emit(i, m) == IF m.end > 0
                    THEN <<SubSeq(s, m.lo, m.hi)>> \o RankedFrom(s, m.end + 1, dashes)
                    ELSE RankedFrom(s, i + 1, dashes)
      At(starts) == IF starts = {} THEN <<>>
                    ELSE Emit(MinOf(starts), RankedAt(s, MinOf(starts), dashes))
  IN At({i \in from..Len(s) : i = 1 \/ Char(s, i) = "\n"})

RankedLines(s, dashes) == RankedFrom(s, 1, dashes)

TrimAll(names) == [i \in 1..Len(names) |-> Trim(names[i])]

findNamedCampaigns(question, campaigns) ==
  LET ByName(name) == FindFirst(campaigns, LAMBDA c : normalizeText(c.name) = name)
      Matched(quoted) ==
        Flatten([i \in 1..Len(quoted) |-> ByName(normalizeText(quoted[i]))])
      Score(cTokens, qTokens) ==
        Rat(Cardinality({k \in 1..Len(cTokens) :
                           \E j \in 1..Len(qTokens) : qTokens[j] = cTokens[k]}),
            Max2(Len(cTokens), 1))
      Scored(qTokens) ==
        Filter(Keyed(campaigns, LAMBDA c : Score(splitTokens(c.name), qTokens)),
               LAMBDA item : ~RatLess(item.k, Rat(35, 100)))
      Fuzzy(qTokens) ==
        IF Len(qTokens) = 0 THEN <<>>
        ELSE Values(Take(StableSortByKey(Scored(qTokens), FALSE), 3))
      Pick(matched) == IF Len(matched) > 0 THEN matched ELSE Fuzzy(splitTokens(question))
  IN Pick(Matched(QuotedNames(question, 140)))

\* matchCampaignByName and matchAdByName: zero or one row
matchByName(name, rows) ==
  LET Within(a, b) == Includes(a, b) \/ Includes(b, a)
      OrPartial(exact, normalized) ==
        IF Len(exact) > 0 THEN exact
        ELSE FindFirst(rows, LAMBDA r : Within(normalizeText(r.name), normalized))
      Match(normalized) ==
        IF normalized = "" THEN <<>>
        ELSE OrPartial(FindFirst(rows, LAMBDA r : normalizeText(r.name) = normalized),
                       normalized)
  IN Match(normalizeText(name))

matchCampaignByName(name, campaigns) == matchByName(name, campaigns)
matchAdByName(name, ads) == matchByName(name, ads)

\* uniqueCampaigns: the rows in order, each id once
uniqueCampaigns(rows) ==
  LET u == Filter([i \in 1..Len(rows) |-> [row |-> rows[i], pos |-> i]],
                  LAMBDA e : \A j \in 1..(e.pos - 1) : rows[j].id # e.row.id)
  IN [i \in 1..Len(u) |-> u[i].row]

\* [...new Set(values)]: the values in order, each once
UniqueSeq(values) ==
  LET u == Filter([i \in 1..Len(values) |-> [v |-> values[i], pos |-> i]],
                  LAMBDA e : \A j \in 1..(e.pos - 1) : values[j] # e.v)
  IN [i \in 1..Len(u) |-> u[i].v]

MatchAll(names, rows) ==
  Flatten([i \in 1..Len(names) |-> matchByName(names[i], rows)])

\* the positions of history, most recent first, that satisfy Test
LastIndexWhere(history, Test(_)) ==
  LET hits == {i \in 1..Len(history) : Test(history[i])}
  IN IF hits = {} THEN 0 ELSE CHOOSE i \in hits : \A j \in hits : j <= i

\* extractRankedNames without the test of the role
extractRankedNamesAnyRole(history) ==
  LET Lines(m) == RankedLines(m.content, {"-"})
      At(i) == IF i = 0 THEN <<>> ELSE TrimAll(Lines(history[i]))
  IN At(LastIndexWhere(history, LAMBDA m : Len(Lines(m)) > 0))

extractRankedNames(history) ==
  LET Lines(m) == RankedLines(m.content, {"-"})
      At(i) == IF i = 0 THEN <<>> ELSE TrimAll(Lines(history[i]))
  IN At(LastIndexWhere(history, LAMBDA m : m.role = "assistant" /\ Len(Lines(m)) > 0))

NamedOrdinals ==
  <<"first", "second", "third", "fourth", "fifth",
    "sixth", "seventh", "eighth", "ninth", "tenth">>

\* the length of the run of digits that starts at position p
DigitRun(s, p) == FirstNonDigit(s, p) - p

\* /\b(\d{1,2})(?:st|nd|rd|th)?\s+(?:one|campaign|option)\b/ at position i:
\* [digits, end] with end = 0 when the pattern does not match there
OrdinalOneAt(s, i) ==
  LET fail == [digits |-> 0, end |-> 0]
      Suffix(a) == IF a + 1 <= Len(s) /\ SubSeq(s, a, a + 1) \in {"st", "nd", "rd", "th"}
                   THEN a + 2 ELSE a
      Words(sp) == {w \in {"one", "campaign", "option"} :
                      /\ sp + Len(w) - 1 <= Len(s)
                      /\ SubSeq(s, sp, sp + Len(w) - 1) = w
                      /\ (sp + Len(w) - 1 = Len(s) \/ ~IsWordChar(Char(s, sp + Len(w))))}
      Match(k, a2, sp, ws) ==
        IF (i > 1 /\ IsWordChar(Char(s, i - 1))) \/ k < 1 \/ k > 2 THEN fail
        ELSE IF sp = a2 \/ ws = {} THEN fail
        ELSE [digits |-> k, end |-> sp + Len(CHOOSE w \in ws : TRUE) - 1]
      AfterSpaces(k, a2, sp) == Match(k, a2, sp, Words(sp))
      AfterSuffix(k, a2) == AfterSpaces(k, a2, SkipSpaces(s, a2))
      AfterDigits(k) == AfterSuffix(k, Suffix(i + k))
  IN AfterDigits(DigitRun(s, i))

\* matchAll of that pattern from position from: the indexes (a match
\* starts at a digit)
RECURSIVE OrdinalOneFrom(_, _)
OrdinalOneFrom(s, from) ==
  LET Emit(i, m) == IF m.end > 0
                    THEN <<NumberAt(s, i, m.digits) - 1>> \o OrdinalOneFrom(s, m.end + 1)
                    ELSE OrdinalOneFrom(s, i + 1)
      At(digits) == IF digits = {} THEN <<>>
                    ELSE Emit(MinOf(digits), OrdinalOneAt(s, MinOf(digits)))
  IN At({i \in from..Len(s) : IsDigit(Char(s, i))})

\* /(?:\bnumber\s+|#)(\d{1,2})\b/ at position i: [at, digits] of the
\* captured number, digits = 0 when the pattern does not match there
NumberRefAt(s, i) ==
  LET fail == [at |-> 0, digits |-> 0]
      sp == SkipSpaces(s, i + 6)
  IN IF /\ i + 5 <= Len(s)
        /\ SubSeq(s, i, i + 5) = "number"
        /\ (i = 1 \/ ~IsWordChar(Char(s, i - 1)))
        /\ sp > i + 6
        /\ Digits12At(s, sp) > 0
     THEN [at |-> sp, digits |-> Digits12At(s, sp)]
     ELSE IF Char(s, i) = "#" /\ Digits12At(s, i + 1) > 0
          THEN [at |-> i + 1, digits |-> Digits12At(s, i + 1)]
     ELSE fail

\* matchAll of that pattern from position from: the indexes (a match
\* starts at the n of number or at #)
RECURSIVE NumberRefFrom(_, _)
NumberRefFrom(s, from) ==
  LET Emit(i, m) == IF m.digits > 0
                    THEN <<NumberAt(s, m.at, m.digits) - 1>>
                           \o NumberRefFrom(s, m.at + m.digits)
                    ELSE NumberRefFrom(s, i + 1)
      At(starts) == IF starts = {} THEN <<>>
                    ELSE Emit(MinOf(starts), NumberRefAt(s, MinOf(starts)))
  IN At({i \in from..Len(s) : Char(s, i) \in {"n", "#"}})

\* the named ordinals read as one-based indexes
extractOrdinalIndexesOneBased(query) ==
  LET Named(q) == Filter([i \in 1..10 |-> i], LAMBDA x : HasWord(q, NamedOrdinals[x]))
  IN Named(ToLower(query))

extractOrdinalIndexes(query) ==
  LET InRange(x) == x >= 0 /\ x < 10
      Named(q) == Filter([i \in 1..10 |-> i - 1], LAMBDA x : HasWord(q, NamedOrdinals[x + 1]))
      Of(q) == UniqueSeq(Named(q) \o Filter(OrdinalOneFrom(q, 1), InRange)
                                  \o Filter(NumberRefFrom(q, 1), InRange))
  IN Of(ToLower(query))

findMostRecentMention(history, campaigns) ==
  LET ByQuote(m) == uniqueCampaigns(MatchAll(QuotedNames(m.content, 140), campaigns))
      ByRank(m) == uniqueCampaigns(MatchAll(RankedLines(m.content, {"-"}), campaigns))
      Prefer(byQuote, m) == IF Len(byQuote) > 0 THEN byQuote ELSE ByRank(m)
      Mentioned(m) == Prefer(ByQuote(m), m)
      At(i) == IF i = 0 THEN <<>> ELSE Mentioned(history[i])
  IN At(LastIndexWhere(history, LAMBDA m : Len(Mentioned(m)) > 0))

\* zero or one ad; the numbered lines of this scan also accept an en dash
\* or an em dash, which the ASCII texts of the model never contain
findMostRecentMentionedAd(history, ads) ==
  LET ByQuote(m) == MatchAll(QuotedNames(m.content, 180), ads)
      ByRank(m) == MatchAll(TrimAll(RankedLines(m.content, {"-"})), ads)
      Prefer(byQuote, m) == IF Len(byQuote) > 0 THEN byQuote ELSE ByRank(m)
      Mentioned(m) == Prefer(ByQuote(m), m)
      First(found) == IF Len(found) > 0 THEN <<found[1]>> ELSE <<>>
      At(i) == IF i = 0 THEN <<>> ELSE First(Mentioned(history[i]))
  IN At(LastIndexWhere(history,
          LAMBDA m : m.role = "assistant" /\ Len(Mentioned(m)) > 0))

IsPronounReference(q) ==
  \/ Includes(q, "that one")
  \/ Includes(q, "that campaign")
  \/ Includes(q, "this campaign")
  \/ q = "it"
  \/ Includes(q, " about it")
  \/ Includes(q, "about that")

\* a resolver that reads an ordinal past the end of the ranked list as its
\* last entry
resolveCampaignReferencesClamped(question, history, campaigns) ==
  LET q == ToLower(question)
      At(ordinals, rankedCampaigns) ==
        uniqueCampaigns([i \in 1..Len(ordinals) |->
                           rankedCampaigns[Min2(ordinals[i] + 1, Len(rankedCampaigns))]])
      Resolve(explicit, rankedCampaigns, ordinals) ==
        IF Len(explicit) > 0 THEN explicit
        ELSE IF (Includes(q, "those two") \/ Includes(q, "both")) /\ Len(rankedCampaigns) >= 2
             THEN Take(rankedCampaigns, 2)
        ELSE IF Len(ordinals) > 0 /\ Len(rankedCampaigns) > 0
             THEN At(ordinals, rankedCampaigns)
        ELSE IF IsPronounReference(q) /\ Len(rankedCampaigns) > 0 THEN <<rankedCampaigns[1]>>
        ELSE <<>>
  IN Resolve(findNamedCampaigns(question, campaigns),
             uniqueCampaigns(MatchAll(extractRankedNames(history), campaigns)),
             extractOrdinalIndexes(q))

\* a resolver that consults the ranked list of the history before the names
\* in the question
resolveCampaignReferencesHistoryFirst(question, history, campaigns) ==
  LET q == ToLower(question)
      Resolve(rankedCampaigns) ==
        IF (Includes(q, "those two") \/ Includes(q, "both")) /\ Len(rankedCampaigns) >= 2
        THEN Take(rankedCampaigns, 2)
        ELSE IF IsPronounReference(q) /\ Len(rankedCampaigns) > 0
             THEN <<rankedCampaigns[1]>>
        ELSE findNamedCampaigns(question, campaigns)
  IN Resolve(uniqueCampaigns(MatchAll(extractRankedNames(history), campaigns)))

resolveCampaignReferences(question, history, campaigns) ==
  LET q == ToLower(question)
      InRange(ordinals, rankedCampaigns) ==
        Filter(ordinals, LAMBDA x : x + 1 <= Len(rankedCampaigns))
      At(inRange, rankedCampaigns) ==
        uniqueCampaigns([i \in 1..Len(inRange) |-> rankedCampaigns[inRange[i] + 1]])
      Resolve(explicit, rankedCampaigns, ordinals, picked, mentioned) ==
        IF Len(explicit) > 0 THEN explicit
        ELSE IF (Includes(q, "those two") \/ Includes(q, "both")) /\ Len(rankedCampaigns) >= 2
             THEN Take(rankedCampaigns, 2)
        ELSE IF Len(ordinals) > 0 /\ Len(rankedCampaigns) > 0 /\ Len(picked) > 0 THEN picked
        ELSE IF IsPronounReference(q) /\ Len(rankedCampaigns) > 0 THEN <<rankedCampaigns[1]>>
        ELSE IF IsPronounReference(q) /\ Len(mentioned) > 0 THEN <<mentioned[1]>>
        ELSE <<>>
      WithRanked(rankedCampaigns, ordinals) ==
        Resolve(findNamedCampaigns(question, campaigns), rankedCampaigns, ordinals,
                At(InRange(ordinals, rankedCampaigns), rankedCampaigns),
                findMostRecentMention(history, campaigns))
  IN WithRanked(uniqueCampaigns(MatchAll(extractRankedNames(history), campaigns)),
                extractOrdinalIndexes(q))

(***************************************************************************)
(* Answer composer.                                                        *)
(***************************************************************************)
UpperChar(c) == IF c \in LowerSet THEN LowerToUpper[c] ELSE c

\* String.prototype.toUpperCase
RECURSIVE ToUpper(_)
ToUpper(s) ==
  IF Len(s) = 0 THEN ""
  ELSE IF Len(s) = 1 THEN UpperChar(s)
  ELSE LET h == Len(s) \div 2
       IN ToUpper(SubSeq(s, 1, h)) \o ToUpper(SubSeq(s, h + 1, Len(s)))

Whole(x) == Rat(x, 1)

metricValue(campaign, metric) ==
  CASE metric = "ctr" -> DerivedCtr(campaign)
    [] metric = "cpc" -> DerivedSafeCpc(campaign)
    [] metric = "cpm" -> DerivedSafeCpm(campaign)
    [] metric = "impressions" -> Whole(campaign.impressions)
    [] metric = "clicks" -> Whole(campaign.clicks)
    [] metric = "results" -> Whole(campaign.results)
    [] OTHER -> Whole(campaign.spend)

formatMetric(metric, value) ==
  CASE metric = "ctr" -> ToFixed2(value) \o "%"
    [] metric \in {"cpc", "cpm", "spend"} -> formatCurrency(value)
    [] metric \in {"impressions", "clicks", "results"} -> formatNumber(value)
    [] OTHER -> ToFixed2(value)

adMetricValue(ad, metric) ==
  CASE metric = "ctr" -> DerivedCtr(ad)
    [] metric = "cpc" -> DerivedSafeCpc(ad)
    [] metric = "cpm" -> DerivedSafeCpm(ad)
    [] metric = "impressions" -> Whole(ad.impressions)
    [] metric = "clicks" -> Whole(ad.clicks)
    [] metric = "results" -> Whole(ad.results)
    [] metric = "efficiency" -> DerivedEfficiency(ad)
    [] OTHER -> Whole(ad.spend)

definitions ==
  [ctr |-> "CTR (Click-Through Rate) = clicks / impressions x 100. It measures how often people click after seeing the ad.",
   cpc |-> "CPC (Cost Per Click) = spend / clicks. Lower CPC means you are paying less for each click.",
   cpm |-> "CPM (Cost Per Mille) = spend / impressions x 1,000. It is the cost to get 1,000 impressions.",
   impressions |-> "Impressions are how many times your ads were shown.",
   clicks |-> "Clicks are how many times users clicked your ad.",
   results |-> "Results are the outcome metric captured from your import (for example conversions or landing actions).",
   efficiency |-> "Efficiency score is a custom ranking in this dashboard: Efficiency Score = CTR / max(CPC, 0.01), where CTR is in percentage points. Higher is better."]

\* no text at all for a question that meets the condition of no handler
NoHelpText == ""

HelpText ==
  "I can answer detailed questions now. Try: \"show top 5 by CTR\", \"compare those two\", \"what about the second one?\", \"recommend optimizations\", or \"tell me about Cambodia Average\"."

\* the test of the other rankings in place of the efficiency threshold
HasAnySignal(ad) == ad.impressions > 0 \/ ad.clicks > 0 \/ ad.spend > 0

\* the ads an efficiency ranking may name
HasEfficiencySignal(ad) == ad.impressions >= 100 /\ ad.clicks > 0
HasSignal(row) == row.impressions > 0 \/ row.clicks > 0 \/ row.spend > 0

\* the answer of the efficiency-score handler
EfficiencyAnswer(history, ads) ==
  LET BestOverall(recentAd, ranked) ==
        IF Len(recentAd) > 0 THEN recentAd
        ELSE IF Len(ranked) > 0 THEN <<ranked[1].v>> ELSE <<>>
      Describe(b) ==
        Join(<<definitions.efficiency,
               "For \"" \o b.name \o "\", score = " \o ToFixed2(DerivedEfficiency(b))
                 \o " (CTR " \o ToFixed2(DerivedCtr(b)) \o " / CPC "
                 \o formatCurrency(DerivedSafeCpc(b)) \o ").">>, "\n")
      Answer(bestOverall) ==
        IF Len(bestOverall) > 0 THEN Describe(bestOverall[1]) ELSE definitions.efficiency
  IN Answer(BestOverall(
       findMostRecentMentionedAd(history, ads),
       StableSortByKey(Keyed(Filter(ads, HasEfficiencySignal), DerivedEfficiency), FALSE)))

\* the ads an ad ranking lists, in order
AdRanking(q, ads, wantsWorst) ==
  LET Selected(metric) ==
        IF metric # "none" THEN metric
        ELSE IF Includes(q, "perform") \/ Includes(q, "best") \/ Includes(q, "winner")
             THEN "efficiency" ELSE "ctr"
      SortOrder(selectedMetric) ==
        IF selectedMetric = "efficiency" THEN (IF wantsWorst THEN "asc" ELSE "desc")
        ELSE detectOrder(q, selectedMetric)
      SourceAds(selectedMetric) ==
        IF selectedMetric = "efficiency" THEN Filter(ads, HasEfficiencySignal)
        ELSE Filter(ads, HasSignal)
      Sorted(selectedMetric) ==
        StableSortByKey(Keyed(SourceAds(selectedMetric),
                              LAMBDA ad : adMetricValue(ad, selectedMetric)),
                        SortOrder(selectedMetric) = "asc")
      Rank(selectedMetric) ==
        [metric |-> selectedMetric,
         selected |-> Values(Take(Sorted(selectedMetric), findTopN(q)))]
  IN Rank(Selected(detectMetric(q)))

\* the answer of the ad top/worst handler
AdRankingAnswer(q, ads, wantsWorst) ==
  LET Label(selectedMetric) ==
        IF selectedMetric = "efficiency" THEN "EFFICIENCY SCORE" ELSE ToUpper(selectedMetric)
      Line(i, ad, selectedMetric) ==
        ToString(i) \o ". " \o ad.name \o " - "
          \o (IF selectedMetric = "efficiency"
              THEN ToFixed2(DerivedEfficiency(ad)) \o " score"
              ELSE formatMetric(selectedMetric, adMetricValue(ad, selectedMetric)))
          \o " (" \o ad.campaignName \o ")"
      Best(best, selectedMetric, metricLabel) ==
        Join(SelectSeq(
          <<"Best ad by " \o metricLabel \o ": \"" \o best.name \o "\"",
            "- Campaign: " \o best.campaignName
              \o (IF best.adSetName # "" THEN " | Ad Set: " \o best.adSetName ELSE ""),
            "- Spend " \o formatCurrency(Whole(best.spend))
              \o " | Impressions " \o formatNumber(Whole(best.impressions))
              \o " | Clicks " \o formatNumber(Whole(best.clicks)),
            "- CTR " \o ToFixed2(DerivedCtr(best)) \o "% | CPC "
              \o formatCurrency(DerivedSafeCpc(best)) \o " | CPM "
              \o formatCurrency(DerivedSafeCpm(best)),
            IF selectedMetric = "efficiency"
            THEN "- Efficiency score " \o ToFixed2(DerivedEfficiency(best))
                   \o " (CTR / max(CPC, 0.01))."
            ELSE "">>, LAMBDA line : line # ""), "\n")
      Answer(topN, selectedMetric, selected, metricLabel) ==
        IF Len(ads) = 0
        THEN "I do not have ad-level rows yet. Upload data with ads first, then ask again."
        ELSE IF Len(selected) = 0 THEN "Not enough ad-level data to rank performance yet."
        ELSE IF topN = 1 THEN Best(selected[1], selectedMetric, metricLabel)
        ELSE "Top " \o ToString(topN) \o " ads by " \o metricLabel \o ":\n- "
               \o Join([i \in 1..Len(selected) |-> Line(i, selected[i], selectedMetric)],
                       "\n- ")
      Of(ranking) ==
        Answer(findTopN(q), ranking.metric, ranking.selected, Label(ranking.metric))
  IN Of(AdRanking(q, ads, wantsWorst))

SummaryAnswer(campaigns) ==
  "Summary: Spend " \o formatCurrency(Whole(SumOf(campaigns, "spend")))
    \o ", Impressions " \o formatNumber(Whole(SumOf(campaigns, "impressions")))
    \o ", Clicks " \o formatNumber(Whole(SumOf(campaigns, "clicks")))
    \o ", CTR " \o ToFixed2(overallCtr(campaigns))
    \o "%, Avg CPC " \o formatCurrency(averageCpc(campaigns))
    \o ", Avg CPM " \o formatCurrency(averageCpm(campaigns)) \o "."

\* the lines of the platform breakdown
PlatformLines(campaigns) ==
  LET KeyOf(c) == IF c.platform = "" THEN "unknown" ELSE c.platform
      keys == UniqueSeq([i \in 1..Len(campaigns) |-> KeyOf(campaigns[i])])
      Group(key) ==
        LET rows == Filter(campaigns, LAMBDA c : KeyOf(c) = key)
        IN [platform |-> key, spend |-> SumOf(rows, "spend"),
            clicks |-> SumOf(rows, "clicks"), impressions |-> SumOf(rows, "impressions")]
      grouped == [i \in 1..Len(keys) |-> Group(keys[i])]
      top == Take(StableSort(grouped, LAMBDA a, b : b.spend < a.spend), 4)
      Line(g) ==
        g.platform \o ": " \o formatCurrency(Whole(g.spend)) \o " spend, "
          \o ToFixed2(IF g.impressions > 0 THEN Rat(g.clicks * 100, g.impressions)
                      ELSE Rat(0, 1))
          \o "% CTR"
  IN [i \in 1..Len(top) |-> Line(top[i])]

ComparisonAnswer(left, right) ==
  LET winner == IF ~RatLess(CtrPerCpc(left), CtrPerCpc(right)) THEN left ELSE right
      Side(c) == "- " \o c.name \o ": Spend " \o formatCurrency(Whole(c.spend))
                   \o ", CTR " \o ToFixed2(DerivedCtr(c)) \o "%, CPC "
                   \o formatCurrency(DerivedSafeCpc(c))
  IN Join(<<"Comparison: \"" \o left.name \o "\" vs \"" \o right.name \o "\"",
            Side(left), Side(right),
            "Winner by efficiency (CTR/CPC): " \o winner.name>>, "\n")

ProfileAnswer(campaign, campaigns) ==
  LET totalSpend == SumOf(campaigns, "spend")
      bySpend == StableSort(campaigns, LAMBDA a, b : b.spend < a.spend)
      hits == {i \in 1..Len(bySpend) : bySpend[i].id = campaign.id}
      spendRank == IF hits = {} THEN 0 ELSE MinOf(hits)
      share == IF totalSpend > 0 THEN Rat(campaign.spend * 100, totalSpend) ELSE Rat(0, 1)
  IN Join(<<"\"" \o campaign.name \o "\" summary:",
            "- Spend " \o formatCurrency(Whole(campaign.spend)) \o " (" \o ToFixed1(share)
              \o "% of account spend, rank #" \o ToString(spendRank) \o ")",
            "- Impressions " \o formatNumber(Whole(campaign.impressions))
              \o " | Clicks " \o formatNumber(Whole(campaign.clicks))
              \o " | Results " \o formatNumber(Whole(campaign.results)),
            "- CTR " \o ToFixed2(DerivedCtr(campaign)) \o "% | CPC "
              \o formatCurrency(DerivedSafeCpc(campaign)) \o " | CPM "
              \o formatCurrency(DerivedSafeCpm(campaign))>>, "\n")

\* the campaigns a campaign ranking lists, in order
CampaignRanking(q, campaigns) ==
  LET Selected(metric) == IF metric = "none" THEN "spend" ELSE metric
      Sorted(metric, selectedMetric) ==
        StableSortByKey(Keyed(campaigns, LAMBDA c : metricValue(c, selectedMetric)),
                        detectOrder(q, metric) = "asc")
      Rank(metric, selectedMetric) ==
        [metric |-> selectedMetric,
         selected |-> Values(Take(Sorted(metric, selectedMetric), findTopN(q)))]
      Of(metric) == Rank(metric, Selected(metric))
  IN Of(detectMetric(q))

CampaignRankingAnswer(q, campaigns) ==
  LET Label(topN) ==
        IF topN = 1 THEN "Campaign" ELSE "Top " \o ToString(topN) \o " campaigns"
      Line(i, campaign, selectedMetric) ==
        ToString(i) \o ". " \o campaign.name \o " - "
          \o formatMetric(selectedMetric, metricValue(campaign, selectedMetric))
      Answer(topN, selectedMetric, selected) ==
        IF Len(selected) = 0 THEN "No matching campaigns found for that request."
        ELSE Label(topN) \o " by " \o ToUpper(selectedMetric) \o ":\n- "
               \o Join([i \in 1..Len(selected) |-> Line(i, selected[i], selectedMetric)],
                       "\n- ")
      Of(ranking) == Answer(findTopN(q), ranking.metric, ranking.selected)
  IN Of(CampaignRanking(q, campaigns))

RecommendationAnswer(campaigns) ==
  LET withSpend == Filter(campaigns, LAMBDA c : c.spend > 0)
      highSpendLowCtr ==
        StableSort(withSpend,
                   LAMBDA a, b : \/ b.spend < a.spend
                                 \/ (a.spend = b.spend /\ RatLess(DerivedCtr(a), DerivedCtr(b))))
      strongEfficiency ==
        StableSortByKey(Keyed(Filter(campaigns, LAMBDA c : c.clicks > 0), CtrPerCpc), FALSE)
      lowVolume == StableSort(withSpend, LAMBDA a, b : a.impressions < b.impressions)
  IN Join(<<"Suggested actions:",
            IF Len(highSpendLowCtr) > 0
            THEN "- Review " \o highSpendLowCtr[1].name \o ": high spend ("
                   \o formatCurrency(Whole(highSpendLowCtr[1].spend)) \o ") but CTR at "
                   \o ToFixed2(DerivedCtr(highSpendLowCtr[1])) \o "%."
            ELSE "- Not enough data for spend/CTR review.",
            IF Len(strongEfficiency) > 0
            THEN "- Consider scaling " \o strongEfficiency[1].v.name \o ": CTR "
                   \o ToFixed2(DerivedCtr(strongEfficiency[1].v)) \o "% at CPC "
                   \o formatCurrency(DerivedSafeCpc(strongEfficiency[1].v)) \o "."
            ELSE "- Not enough data for scaling recommendation.",
            IF Len(lowVolume) > 0
            THEN "- Check delivery on " \o lowVolume[1].name \o ": only "
                   \o formatNumber(Whole(lowVolume[1].impressions)) \o " impressions."
            ELSE "- Not enough data for delivery recommendation.">>, "\n")

\* a composer that tries the campaign ranking before every other handler
ComposeAnswerRankingFirst(question, campaigns, history, ads) ==
  LET q == ToLower(question)
      ranks == \E w \in {"top", "best", "highest", "most", "worst", "lowest", "least"} :
                 Includes(q, w)
  IN IF ranks /\ (Includes(q, "campaign") \/ detectMetric(q) # "none")
     THEN [handler |-> "campaignRanking", answer |-> CampaignRankingAnswer(q, campaigns)]
     ELSE [handler |-> "help", answer |-> HelpText]

\* the cascade of buildRuleBasedAnswer: the handler that answers, by name,
\* and its answer
ComposeAnswer(question, campaigns, history, ads) ==
  LET q == ToLower(question)
      asksCount == Includes(q, "how many") \/ Includes(q, "number of")
      asksForAds == HasAnyWord(q, {"ad", "ads", "creative", "creatives"})
      isDefinitionQuery ==
        \/ HasAnyWord(q, {"what's", "what is", "define", "meaning", "means", "explain"})
        \/ (Includes(q, "how") /\ (Includes(q, "calculate") \/ Includes(q, "computed")))
      asksEfficiency ==
        Includes(q, "efficiency score") \/ q = "efficiency" \/ q = "efficiency score"
      wantsTop == \/ Includes(q, "top") \/ Includes(q, "best")
                  \/ Includes(q, "highest") \/ Includes(q, "most")
      wantsWorst == Includes(q, "worst") \/ Includes(q, "lowest") \/ Includes(q, "least")
      asksPerformance == Includes(q, "perform") \/ Includes(q, "winner")
      definitionMetric == detectMetric(q)
      asksTotal == Includes(q, "total") \/ Includes(q, "overall")
      metric == detectMetric(q)
      Reply(handler, answer) == [handler |-> handler, answer |-> answer]
      Cascade(referencedCampaigns, platformLines) ==
      IF asksCount /\ Includes(q, "campaign")
     THEN Reply("countCampaigns",
                "There are " \o ToString(Len(campaigns)) \o " campaigns in the current dataset.")
     ELSE IF asksCount /\ asksForAds
     THEN Reply("countAds",
                "There are " \o ToString(Len(ads)) \o " ads in the current dataset.")
     ELSE IF asksEfficiency
             /\ (isDefinitionQuery \/ (~wantsTop /\ ~wantsWorst /\ ~asksPerformance))
     THEN Reply("efficiency", EfficiencyAnswer(history, ads))
     ELSE IF asksForAds /\ (wantsTop \/ wantsWorst \/ asksPerformance)
     THEN Reply("adRanking", AdRankingAnswer(q, ads, wantsWorst))
     ELSE IF /\ (Includes(q, "what is") \/ Includes(q, "define") \/ Includes(q, "meaning"))
             /\ definitionMetric \in {"ctr", "cpc", "cpm", "impressions", "clicks", "results"}
     THEN Reply("definition", definitions[definitionMetric])
     ELSE IF Includes(q, "summary") \/ Includes(q, "overview")
     THEN Reply("summary", SummaryAnswer(campaigns))
     ELSE IF Includes(q, "platform") /\ Len(platformLines) > 0
     THEN Reply("platform", "Platform breakdown:\n- " \o Join(platformLines, "\n- "))
     ELSE IF \/ Includes(q, "total spend")
             \/ (Includes(q, "spend") /\ Includes(q, "total"))
             \/ Includes(q, "how much spent")
     THEN Reply("totalSpend",
                "Total spend is " \o formatCurrency(Whole(SumOf(campaigns, "spend")))
                  \o " across " \o ToString(Len(campaigns)) \o " campaigns.")
     ELSE IF asksTotal /\ Includes(q, "impression")
     THEN Reply("totalImpressions",
                "Total impressions are "
                  \o formatNumber(Whole(SumOf(campaigns, "impressions"))) \o ".")
     ELSE IF asksTotal /\ Includes(q, "click")
     THEN Reply("totalClicks",
                "Total clicks are " \o formatNumber(Whole(SumOf(campaigns, "clicks"))) \o ".")
     ELSE IF asksTotal /\ Includes(q, "result")
     THEN Reply("totalResults",
                "Total results are " \o formatNumber(Whole(SumOf(campaigns, "results"))) \o ".")
     ELSE IF Includes(q, "ctr")
     THEN Reply("overallCtr",
                "Overall CTR is " \o ToFixed2(overallCtr(campaigns))
                  \o "% (clicks / impressions).")
     ELSE IF Includes(q, "cpc")
     THEN Reply("averageCpc",
                "Average CPC is " \o formatCurrency(averageCpc(campaigns)) \o ".")
     ELSE IF Includes(q, "cpm")
     THEN Reply("averageCpm",
                "Average CPM is " \o formatCurrency(averageCpm(campaigns)) \o ".")
     ELSE IF /\ Len(referencedCampaigns) >= 2
             /\ (Includes(q, "compare") \/ Includes(q, "vs") \/ Includes(q, "versus"))
     THEN Reply("comparison",
                ComparisonAnswer(referencedCampaigns[1], referencedCampaigns[2]))
     ELSE IF Len(referencedCampaigns) > 0
     THEN Reply("profile", ProfileAnswer(referencedCampaigns[1], campaigns))
     ELSE IF \/ (Includes(q, "campaign") /\ (wantsTop \/ wantsWorst))
             \/ ((wantsTop \/ wantsWorst) /\ metric # "none")
     THEN Reply("campaignRanking", CampaignRankingAnswer(q, campaigns))
     ELSE IF Includes(q, "recommend") \/ Includes(q, "improve") \/ Includes(q, "optimiz")
     THEN Reply("recommendations", RecommendationAnswer(campaigns))
     ELSE Reply("help", HelpText)
  IN Cascade(resolveCampaignReferences(question, history, campaigns),
             PlatformLines(campaigns))

buildRuleBasedAnswer(question, campaigns, history, ads) ==
  ComposeAnswer(question, campaigns, history, ads).answer

NoDataText == "I do not have campaign data yet. Upload a CSV first, then ask again."

(***************************************************************************)
(* Inputs of the model: request bodies, environments, gateway payloads and *)
(* the rows of the dataset.                                                *)
(***************************************************************************)
Str(v) == [t |-> "str", v |-> v]
Missing == [t |-> "none", v |-> ""]
Arr(v) == [t |-> "arr", v |-> v]
NoHistory == [t |-> "none", v |-> <<>>]

Message(role, content) == [role |-> role, content |-> content]

JsonBody(question, history) == [json |-> TRUE, question |-> question, history |-> history]
\* a body request.json() cannot parse
NotJsonBody == [json |-> FALSE, question |-> Missing, history |-> NoHistory]

RankedHistory ==
  <<Message("user", "top 2 campaigns by spend"),
    Message("assistant", "1. Alpha Launch - $100.00\n2. Beta Promo - $50.00")>>

\* a question of the greatest length allowed and a history of the greatest
\* length allowed, with one content of the greatest length allowed
LongQuestion == "How many campaigns" \o Repeat("?", QuestionMax - 18)
LongHistory ==
  [i \in 1..HistoryMax |->
     IF i = HistoryMax THEN Message("assistant", Repeat("y", ContentMax))
     ELSE Message("user", "x")]

ValidBodies ==
  {JsonBody(Str("summary"), NoHistory),
   JsonBody(Str("  the second one \n"), Arr(RankedHistory)),
   JsonBody(Str("ok"), Arr(<<>>)),
   JsonBody(Str(LongQuestion), Arr(LongHistory))}

InvalidBodies ==
  {JsonBody(Str("a"), NoHistory),
   JsonBody(Str("  a  "), NoHistory),
   JsonBody(Str(Repeat("z", QuestionMax + 1)), NoHistory),
   JsonBody(Missing, NoHistory),
   JsonBody(Str("summary"), Arr([i \in 1..(HistoryMax + 1) |-> Message("user", "x")])),
   JsonBody(Str("summary"), Arr(<<Message("system", "x")>>)),
   JsonBody(Str("summary"), Arr(<<Message("user", "hi"), Message("assistant", "   ")>>)),
   JsonBody(Str("summary"), Arr(<<Message("user", Repeat("y", ContentMax + 1))>>))}

Bodies == ValidBodies \cup InvalidBodies \cup {NotJsonBody}

Env(gateway, vercel, openai) ==
  [AI_GATEWAY_API_KEY |-> gateway, VERCEL_AI_GATEWAY_API_KEY |-> vercel,
   OPENAI_API_KEY |-> openai]

Envs == {Env("", "", ""), Env("gw-key", "", "sk-key"), Env("", "vc-key", ""),
         Env("", "", "sk-key")}

Content(text, outputText) == [text |-> text, output_text |-> outputText]
ObjectPayload(outputText, output) ==
  [t |-> "object", output_text |-> outputText, output |-> output]

Payloads ==
  {ObjectPayload(Str("Spend is $150.00."), <<>>),
   ObjectPayload(Str("  Spend is $150.00. \n"), <<>>),
   ObjectPayload(Missing,
                 << <<Content(Str(" Alpha leads. "), Missing),
                      Content(Str("  "), Str("Beta follows."))>>,
                    <<Content(Missing, Missing)>> >>),
   ObjectPayload(Str("   "), << <<Content(Str(" "), Missing)>> >>),
   ObjectPayload(Missing, <<>>),
   [t |-> "null", output_text |-> Missing, output |-> <<>>]}

ImportCampaigns ==
  <<[id |-> "c1", name |-> "Alpha Launch", spend |-> 10000, impressions |-> 1000,
     clicks |-> 10, results |-> 2, cpc |-> 1000, cpm |-> 10000, platform |-> "facebook"],
    [id |-> "c2", name |-> "Beta Promo", spend |-> 5000, impressions |-> 500,
     clicks |-> 20, results |-> 0, cpc |-> 250, cpm |-> 10000, platform |-> ""]>>

ImportAds ==
  <<[id |-> "a1", name |-> "Alpha Video", campaignName |-> "Alpha Launch",
     adSetName |-> "Prospecting", spend |-> 10000, impressions |-> 1000,
     clicks |-> 10, results |-> 2, cpc |-> 1000, cpm |-> 10000],
    [id |-> "a2", name |-> "Beta Carousel", campaignName |-> "Beta Promo",
     adSetName |-> "", spend |-> 5000, impressions |-> 500,
     clicks |-> 20, results |-> 0, cpc |-> 250, cpm |-> 10000]>>

(***************************************************************************)
(* The orchestrator: POST /api/chat, one step per stretch of code between  *)
(* two awaits, for NumRequests requests that run together over one         *)
(* dataset.                                                                *)
(***************************************************************************)
VARIABLES
  db,            \* the dataset: [campaigns, ads], the rows of the two tables
  env,           \* process.env, as far as getAiConfig reads it
  pc,            \* pc[r]: the await the handler of request r is suspended at
  body,          \* body[r]: the JSON body of request r
  parsed,        \* parsed[r]: { question, history } of ChatSchema.parse
  campaigns,     \* campaigns[r]: the rows read by db.campaign.findMany
  ads,           \* ads[r]: the rows read by db.ad.findMany
  timer,         \* timer[r]: the abort timer of getAiAnswer, [state, delay]
  aborted,       \* aborted[r]: controller.signal.aborted
  responses,     \* responses[r]: the responses the handler has returned
  outcome,       \* outcome[r]: how the gateway call of r ended, [kind, payload]
  dbReads,       \* dbReads[r]: the findMany calls r has issued
  readFailed,    \* readFailed[r]: a findMany call of r has rejected
  httpCalls,     \* httpCalls[r]: the fetch calls r has issued
  composerRuns,  \* composerRuns[r]: the calls of buildRuleBasedAnswer by r
  input,         \* the arguments of one call of a function of the composer
  output,        \* the value that call returned, [done, value]
  chatMessages,  \* the dashboard: the messages of the chat panel
  chatInput,     \* the dashboard: the text of the input field
  chatLoading,   \* the dashboard: a request of the chat panel is under way
  chatRequests   \* the dashboard: the calls of sendChatMessage that are suspended

vars == <<db, env, pc, body, parsed, campaigns, ads, timer, aborted,
          responses, outcome, dbReads, readFailed, httpCalls, composerRuns>>

Requests == 1..NumRequests

\* the state of the chat panel of the dashboard
chatVars == <<chatMessages, chatInput, chatLoading, chatRequests>>

\* the message the chat panel starts with
Greeting ==
  [role |-> "assistant",
   content |-> "Ask me anything about this dataset, e.g. \"top campaign by spend\", \"overall CTR\", or \"how many campaigns do we have?\""]

\* useState(...) of the chat panel
ChatInit ==
  /\ chatMessages = <<Greeting>>
  /\ chatInput = ""
  /\ chatLoading = FALSE
  /\ chatRequests = <<>>

GatewayTimeoutMs == 15000

NoTimer == [state |-> "none", delay |-> 0]
NoOutcome == [kind |-> "none", payload |-> [t |-> "null", output_text |-> Missing, output |-> <<>>]]
NoBody == NotJsonBody
NoParsed == [question |-> "", history |-> <<>>]

GatewayAwaits == {"awaitFetch", "awaitJson", "awaitErrorText"}

\* no function is being applied on its own
NoInput == [fn |-> "none"]
NoOutput == [done |-> FALSE]

SuccessResponse(answer, mode) ==
  [status |-> 200, success |-> TRUE, answer |-> answer, mode |-> mode,
   error |-> "", details |-> {}]

ValidationErrorResponse(issues) ==
  [status |-> 400, success |-> FALSE, answer |-> "", mode |-> "",
   error |-> "Validation error", details |-> issues]

InternalErrorResponse ==
  [status |-> 500, success |-> FALSE, answer |-> "", mode |-> "",
   error |-> "Internal server error", details |-> {}]

Init ==
  /\ db \in {[campaigns |-> <<>>, ads |-> <<>>],
             [campaigns |-> ImportCampaigns, ads |-> ImportAds]}
  /\ env \in Envs
  /\ pc = [r \in Requests |-> "idle"]
  /\ body = [r \in Requests |-> NoBody]
  /\ parsed = [r \in Requests |-> NoParsed]
  /\ campaigns = [r \in Requests |-> <<>>]
  /\ ads = [r \in Requests |-> <<>>]
  /\ timer = [r \in Requests |-> NoTimer]
  /\ aborted = [r \in Requests |-> FALSE]
  /\ responses = [r \in Requests |-> <<>>]
  /\ outcome = [r \in Requests |-> NoOutcome]
  /\ dbReads = [r \in Requests |-> 0]
  /\ readFailed = [r \in Requests |-> FALSE]
  /\ httpCalls = [r \in Requests |-> 0]
  /\ composerRuns = [r \in Requests |-> 0]
  /\ input = NoInput
  /\ output = NoOutput
  /\ ChatInit

\* return NextResponse.json(...): the handler of r ends with this response
Return(r, response) ==
  /\ responses' = [responses EXCEPT ![r] = Append(@, response)]
  /\ pc' = [pc EXCEPT ![r] = "done"]

\* clearTimeout(timeoutId): a timer that has fired stays fired
ClearedTimer(t) == IF t.state = "pending" THEN [t EXCEPT !.state = "cleared"] ELSE t

\* ReturnRuleBased with the parsed request kept in one place for all
\* requests: every request is answered for the question of the first
ReturnRuleBasedShared(r, rows, adRows) ==
  /\ composerRuns' = [composerRuns EXCEPT ![r] = @ + 1]
  /\ Return(r, SuccessResponse(
               buildRuleBasedAnswer(parsed[1].question, rows, parsed[1].history, adRows),
               "basic"))

\* ReturnRuleBased with a composer that keeps state between its runs: the
\* answer carries the number of requests the composer has answered before
ReturnRuleBasedCounting(r, rows, adRows) ==
  /\ composerRuns' = [composerRuns EXCEPT ![r] = @ + 1]
  /\ Return(r, SuccessResponse(
               buildRuleBasedAnswer(parsed[r].question, rows, parsed[r].history, adRows)
                 \o " #" \o ToString(Cardinality({x \in Requests : composerRuns[x] > 0})),
               "basic"))

\* lines 922-926: the rule-based answer is composed and returned
ReturnRuleBased(r, rows, adRows) ==
  /\ composerRuns' = [composerRuns EXCEPT ![r] = @ + 1]
  /\ Return(r, SuccessResponse(
               buildRuleBasedAnswer(parsed[r].question, rows, parsed[r].history, adRows),
               "basic"))

\* getAiAnswer settles with this result: finally clearTimeout (lines
\* 850-852); POST, suspended at await getAiAnswer(...), resumes afterwards
GetAiAnswerSettles(r, result) ==
  /\ timer' = [timer EXCEPT ![r] = ClearedTimer(@)]
  /\ outcome' = [outcome EXCEPT ![r] = result]
  /\ pc' = [pc EXCEPT ![r] = "awaitAnswer"]
  /\ UNCHANGED <<responses, composerRuns>>

\* getAiAnswer throws after the failure kind of its gateway call
GatewayFailed(r, kind) ==
  GetAiAnswerSettles(r, [NoOutcome EXCEPT !.kind = kind])

\* the request arrives and request.json() is awaited
Receive(r, b) ==
  /\ pc[r] = "idle"
  /\ body' = [body EXCEPT ![r] = b]
  /\ pc' = [pc EXCEPT ![r] = "awaitBody"]
  /\ UNCHANGED <<db, env, parsed, campaigns, ads, timer, aborted,
                 responses, outcome, dbReads, readFailed, httpCalls, composerRuns>>

\* request.json() settles; ChatSchema.parse; db.campaign.findMany is issued
Validate(r) ==
  /\ pc[r] = "awaitBody"
  /\ IF ~body[r].json
     THEN /\ Return(r, InternalErrorResponse)
          /\ UNCHANGED <<parsed, dbReads>>
     ELSE IF ChatSchemaIssues(body[r]) # {}
     THEN /\ Return(r, ValidationErrorResponse(ChatSchemaIssues(body[r])))
          /\ UNCHANGED <<parsed, dbReads>>
     ELSE /\ parsed' = [parsed EXCEPT ![r] = ChatSchemaParse(body[r])]
          /\ dbReads' = [dbReads EXCEPT ![r] = @ + 1]
          /\ pc' = [pc EXCEPT ![r] = "awaitCampaigns"]
          /\ UNCHANGED responses
  /\ UNCHANGED <<db, env, body, campaigns, ads, timer, aborted,
                 outcome, readFailed, httpCalls, composerRuns>>

\* db.campaign.findMany settles; db.ad.findMany is issued
ReadCampaigns(r, ok) ==
  /\ pc[r] = "awaitCampaigns"
  /\ IF ok
     THEN /\ campaigns' = [campaigns EXCEPT ![r] = db.campaigns]
          /\ dbReads' = [dbReads EXCEPT ![r] = @ + 1]
          /\ pc' = [pc EXCEPT ![r] = "awaitAds"]
          /\ UNCHANGED <<responses, readFailed>>
     ELSE /\ readFailed' = [readFailed EXCEPT ![r] = TRUE]
          /\ Return(r, InternalErrorResponse)
          /\ UNCHANGED <<campaigns, dbReads>>
  /\ UNCHANGED <<db, env, body, parsed, ads, timer, aborted,
                 outcome, httpCalls, composerRuns>>

\* ReadAds without the empty-dataset check of lines 901-907
ReadAdsNoEmptyCheck(r, ok) ==
  /\ pc[r] = "awaitAds"
  /\ IF ~ok
     THEN /\ readFailed' = [readFailed EXCEPT ![r] = TRUE]
          /\ Return(r, InternalErrorResponse)
          /\ UNCHANGED <<ads, timer, httpCalls>>
     ELSE /\ ads' = [ads EXCEPT ![r] = db.ads]
          /\ UNCHANGED <<readFailed, responses>>
          /\ IF getAiConfig(env) = NoConfig
             THEN /\ pc' = [pc EXCEPT ![r] = "awaitAnswer"]
                  /\ UNCHANGED <<timer, httpCalls>>
             ELSE /\ timer' = [timer EXCEPT ![r] =
                                 [state |-> "pending", delay |-> GatewayTimeoutMs]]
                  /\ httpCalls' = [httpCalls EXCEPT ![r] = @ + 1]
                  /\ pc' = [pc EXCEPT ![r] = "awaitFetch"]
  /\ UNCHANGED <<db, env, body, parsed, campaigns, aborted, outcome, dbReads,
                 composerRuns>>

\* db.ad.findMany settles; the empty-dataset check; then getAiAnswer is
\* called: without a configuration it returns null at once (lines 782-783),
\* otherwise it arms the abort timer and issues the fetch
ReadAds(r, ok) ==
  /\ pc[r] = "awaitAds"
  /\ IF ~ok
     THEN /\ readFailed' = [readFailed EXCEPT ![r] = TRUE]
          /\ Return(r, InternalErrorResponse)
          /\ UNCHANGED <<ads, timer, httpCalls>>
     ELSE /\ ads' = [ads EXCEPT ![r] = db.ads]
          /\ UNCHANGED readFailed
          /\ IF Len(campaigns[r]) = 0
             THEN /\ Return(r, SuccessResponse(NoDataText, "basic"))
                  /\ UNCHANGED <<timer, httpCalls>>
             ELSE IF getAiConfig(env) = NoConfig
             THEN /\ pc' = [pc EXCEPT ![r] = "awaitAnswer"]
                  /\ UNCHANGED <<timer, httpCalls, responses>>
             ELSE /\ timer' = [timer EXCEPT ![r] =
                                 [state |-> "pending", delay |-> GatewayTimeoutMs]]
                  /\ httpCalls' = [httpCalls EXCEPT ![r] = @ + 1]
                  /\ pc' = [pc EXCEPT ![r] = "awaitFetch"]
                  /\ UNCHANGED responses
  /\ UNCHANGED <<db, env, body, parsed, campaigns, aborted, outcome, dbReads,
                 composerRuns>>

\* fetch settles before the abort: a transport error, or a response whose
\* body is then awaited (res.json() when res.ok, res.text() otherwise)
FetchSettles(r, result) ==
  /\ pc[r] = "awaitFetch"
  /\ ~aborted[r]
  /\ CASE result = "transportError" -> GatewayFailed(r, "transportError")
       [] result = "ok" ->
            /\ pc' = [pc EXCEPT ![r] = "awaitJson"]
            /\ UNCHANGED <<timer, outcome, responses, composerRuns>>
       [] result = "notOk" ->
            /\ pc' = [pc EXCEPT ![r] = "awaitErrorText"]
            /\ UNCHANGED <<timer, outcome, responses, composerRuns>>
  /\ UNCHANGED <<db, env, body, parsed, campaigns, ads, aborted,
                 dbReads, readFailed, httpCalls>>

\* res.text() of a non-2xx response settles: getAiAnswer throws
ErrorTextSettles(r) ==
  /\ pc[r] = "awaitErrorText"
  /\ ~aborted[r]
  /\ GatewayFailed(r, "notOk")
  /\ UNCHANGED <<db, env, body, parsed, campaigns, ads, aborted,
                 dbReads, readFailed, httpCalls>>

\* res.json() rejects: the body is not JSON
JsonRejects(r) ==
  /\ pc[r] = "awaitJson"
  /\ ~aborted[r]
  /\ GatewayFailed(r, "badJson")
  /\ UNCHANGED <<db, env, body, parsed, campaigns, ads, aborted,
                 dbReads, readFailed, httpCalls>>

\* res.json() settles with a payload: extractResponseText, and getAiAnswer
\* returns the text or throws when there is none (lines 843-848)
JsonSettles(r, payload) ==
  /\ pc[r] = "awaitJson"
  /\ ~aborted[r]
  /\ GetAiAnswerSettles(r, [kind |-> "payload", payload |-> payload])
  /\ UNCHANGED <<db, env, body, parsed, campaigns, ads, aborted,
                 dbReads, readFailed, httpCalls>>

\* TimerFires without controller.abort(): the timer fires and nothing is
\* aborted
TimerFiresNoAbort(r) ==
  /\ timer[r].state = "pending"
  /\ timer' = [timer EXCEPT ![r] = [@ EXCEPT !.state = "fired"]]
  /\ UNCHANGED <<db, env, pc, body, parsed, campaigns, ads, aborted,
                 responses, outcome, dbReads, readFailed, httpCalls, composerRuns>>

\* the abort timer fires: controller.abort()
TimerFires(r) ==
  /\ timer[r].state = "pending"
  /\ timer' = [timer EXCEPT ![r] = [@ EXCEPT !.state = "fired"]]
  /\ aborted' = [aborted EXCEPT ![r] = TRUE]
  /\ UNCHANGED <<db, env, pc, body, parsed, campaigns, ads,
                 responses, outcome, dbReads, readFailed, httpCalls, composerRuns>>

\* AbortRejects with one retry: after the first abort the fetch is issued
\* again with a new timer
AbortRejectsRetry(r) ==
  /\ pc[r] \in GatewayAwaits
  /\ aborted[r]
  /\ IF httpCalls[r] < 2
     THEN /\ timer' = [timer EXCEPT ![r] =
                         [state |-> "pending", delay |-> GatewayTimeoutMs]]
          /\ aborted' = [aborted EXCEPT ![r] = FALSE]
          /\ httpCalls' = [httpCalls EXCEPT ![r] = @ + 1]
          /\ pc' = [pc EXCEPT ![r] = "awaitFetch"]
          /\ UNCHANGED <<responses, outcome, composerRuns>>
     ELSE /\ GatewayFailed(r, "timeout")
          /\ UNCHANGED <<aborted, httpCalls>>
  /\ UNCHANGED <<db, env, body, parsed, campaigns, ads, dbReads, readFailed>>

\* the pending await of the gateway call rejects with the AbortError
AbortRejects(r) ==
  /\ pc[r] \in GatewayAwaits
  /\ aborted[r]
  /\ GatewayFailed(r, "timeout")
  /\ UNCHANGED <<db, env, body, parsed, campaigns, ads, aborted,
                 dbReads, readFailed, httpCalls>>

\* AnswerSettles without the inner catch of POST (lines 918-920): an error
\* thrown by getAiAnswer reaches the outer catch and the caller gets the
\* internal error
AnswerSettlesSurfaced(r) ==
  /\ pc[r] = "awaitAnswer"
  /\ IF outcome[r].kind = "payload" /\ extractResponseText(outcome[r].payload) # ""
     THEN /\ Return(r, SuccessResponse(extractResponseText(outcome[r].payload), "ai"))
          /\ UNCHANGED composerRuns
     ELSE IF outcome[r].kind = "none"
     THEN ReturnRuleBased(r, campaigns[r], ads[r])
     ELSE /\ Return(r, InternalErrorResponse)
          /\ UNCHANGED composerRuns
  /\ UNCHANGED <<db, env, body, parsed, campaigns, ads, timer, aborted,
                 outcome, dbReads, readFailed, httpCalls>>

\* AnswerSettles without the checks of lines 845-847 and 911 that the text
\* is not empty: whatever was extracted is returned in mode "ai"
AnswerSettlesNoEmptyCheck(r) ==
  /\ pc[r] = "awaitAnswer"
  /\ IF outcome[r].kind = "payload"
     THEN /\ Return(r, SuccessResponse(extractResponseText(outcome[r].payload), "ai"))
          /\ UNCHANGED composerRuns
     ELSE ReturnRuleBased(r, campaigns[r], ads[r])
  /\ UNCHANGED <<db, env, body, parsed, campaigns, ads, timer, aborted,
                 outcome, dbReads, readFailed, httpCalls>>

\* AnswerSettles without the return of lines 912-916: after the answer of
\* the gateway the handler goes on to the rule-based return as well
AnswerSettlesFallsThrough(r) ==
  /\ pc[r] = "awaitAnswer"
  /\ composerRuns' = [composerRuns EXCEPT ![r] = @ + 1]
  /\ pc' = [pc EXCEPT ![r] = "done"]
  /\ responses' =
       [responses EXCEPT ![r] =
          (IF outcome[r].kind = "payload" /\ extractResponseText(outcome[r].payload) # ""
           THEN Append(@, SuccessResponse(extractResponseText(outcome[r].payload), "ai"))
           ELSE @)
            \o <<SuccessResponse(
                   buildRuleBasedAnswer(parsed[r].question, campaigns[r],
                                        parsed[r].history, ads[r]),
                   "basic")>>]
  /\ UNCHANGED <<db, env, body, parsed, campaigns, ads, timer, aborted,
                 outcome, dbReads, readFailed, httpCalls>>

\* the promise of getAiAnswer has settled and POST resumes (lines 909-926):
\* a text is returned in mode "ai"; after null or an error, caught and
\* logged, the rule-based answer is returned
AnswerSettles(r) ==
  /\ pc[r] = "awaitAnswer"
  /\ IF outcome[r].kind = "payload" /\ extractResponseText(outcome[r].payload) # ""
     THEN /\ Return(r, SuccessResponse(extractResponseText(outcome[r].payload), "ai"))
          /\ UNCHANGED composerRuns
     ELSE ReturnRuleBased(r, campaigns[r], ads[r])
  /\ UNCHANGED <<db, env, body, parsed, campaigns, ads, timer, aborted,
                 outcome, dbReads, readFailed, httpCalls>>

ChatStep(r) ==
  \/ \E b \in Bodies : Receive(r, b)
  \/ Validate(r)
  \/ \E ok \in BOOLEAN : ReadCampaigns(r, ok)
  \/ \E ok \in BOOLEAN : ReadAds(r, ok)
  \/ \E result \in {"transportError", "ok", "notOk"} : FetchSettles(r, result)
  \/ ErrorTextSettles(r)
  \/ JsonRejects(r)
  \/ \E payload \in Payloads : JsonSettles(r, payload)
  \/ TimerFires(r)
  \/ AbortRejects(r)
  \/ AnswerSettles(r)

Next == (\E r \in Requests : ChatStep(r)) /\ UNCHANGED <<input, output, chatVars>>

Spec == Init /\ [][Next]_vars

\* the runtime fires a pending timer, and an aborted fetch rejects
LiveSpec ==
  /\ Spec
  /\ \A r \in Requests : WF_vars(TimerFires(r)) /\ WF_vars(AbortRejects(r))

(***************************************************************************)
(* Properties of the orchestrator.                                         *)
(***************************************************************************)
Done(r) == pc[r] = "done"

\* the response of a request that has ended
Response(r) == responses[r][1]

\* the body of r is JSON and ChatSchema.parse accepts it
Passed(r) == body[r].json /\ ChatSchemaIssues(body[r]) = {}

\* one of the API key variables of the environment is set
Configured ==
  \/ env.AI_GATEWAY_API_KEY # ""
  \/ env.VERCEL_AI_GATEWAY_API_KEY # ""
  \/ env.OPENAI_API_KEY # ""

\* both reads of r have settled with rows: campaigns[r] and ads[r] are
\* the snapshot of the dataset r works on
ReadDone(r) == dbReads[r] = 2 /\ pc[r] # "awaitAds" /\ ~readFailed[r]

\* the text a payload carries: output_text trimmed, or else the trimmed
\* non-blank texts of the content items joined by newlines
TrimmedText(payload) ==
  IF payload.t # "object" THEN ""
  ELSE IF payload.output_text.t = "str" /\ Trim(payload.output_text.v) # ""
       THEN Trim(payload.output_text.v)
  ELSE Trim(Join(OutputParts(payload.output), "\n"))

\* the gateway call of r has ended without a text: a transport error, a
\* non-2xx status, a body that is not JSON, a payload without text, or
\* the abort
GatewayFailure(r) ==
  \/ outcome[r].kind \in {"transportError", "notOk", "badJson", "timeout"}
  \/ outcome[r].kind = "payload" /\ TrimmedText(outcome[r].payload) = ""

\* the gateway call of r has ended with a text
GatewayText(r) ==
  outcome[r].kind = "payload" /\ TrimmedText(outcome[r].payload) # ""

\* the rule-based answer to the question of r over the snapshot of r
RuleBasedResponse(r) ==
  SuccessResponse(
    buildRuleBasedAnswer(parsed[r].question, campaigns[r], parsed[r].history, ads[r]),
    "basic")

\* C1, as stated: every request that passes schema validation ends in a
\* success response, whatever the dataset and whatever the gateway does; no
\* such request ends in an error response.
C1_ValidAlwaysSucceeds ==
  \A r \in Requests : Done(r) /\ Passed(r) => Response(r).success

\* C1, amended: a request that passes schema validation ends in a success
\* response {success: true, answer, mode} whatever the dataset holds and
\* whatever the gateway does, provided both reads of the dataset succeed;
\* when a read fails it ends in the generic internal error, status 500.
C1_ValidSucceedsUnlessReadFails ==
  \A r \in Requests :
    Done(r) /\ Passed(r) =>
      IF readFailed[r]
      THEN responses[r] = <<InternalErrorResponse>>
      ELSE /\ Response(r).success
           /\ Response(r).status = 200
           /\ Response(r).mode \in {"ai", "basic"}
           /\ Response(r).answer # ""
           /\ Response(r).error = ""

\* a valid request over a dataset with rows, whose gateway call ended in a
\* transport error, has been answered with success
C1_Witness ==
  \E r \in Requests :
    /\ Done(r) /\ Passed(r) /\ ~readFailed[r]
    /\ outcome[r].kind = "transportError"
    /\ Response(r).success

\* C2: with a gateway configured and a dataset with rows, every kind of
\* gateway failure (non-2xx status, transport error, abort by the timeout,
\* a payload that is empty or not JSON) ends the same way: the rule-based
\* answer over the snapshot, mode "basic", status 200, the composer run
\* once, and no error.
C2_FailureFallsBack ==
  \A r \in Requests :
    Done(r) /\ GatewayFailure(r) =>
      /\ Configured
      /\ Len(campaigns[r]) > 0
      /\ responses[r] = <<RuleBasedResponse(r)>>
      /\ composerRuns[r] = 1

\* two requests whose gateway calls failed differently, one by the abort
\* and one with a payload without text, both answered in mode "basic"
C2_Witness ==
  \E r1, r2 \in Requests :
    /\ Done(r1) /\ outcome[r1].kind = "timeout"
    /\ Done(r2) /\ outcome[r2].kind = "payload" /\ GatewayFailure(r2)
    /\ Response(r1).mode = "basic" /\ Response(r2).mode = "basic"

\* C3, as stated: when the gateway returns text, the response has mode "ai"
\* and its answer is that text character for character.
C3_AnswerVerbatim ==
  \A r \in Requests :
    Done(r) /\ GatewayText(r) /\ outcome[r].payload.output_text.t = "str" =>
      /\ Response(r).mode = "ai"
      /\ Response(r).answer = outcome[r].payload.output_text.v

\* C3, amended: the response has mode "ai" exactly when the gateway call
\* returned a payload with text (which needs a configured gateway and a
\* dataset with rows), and then its answer is the text of the payload after
\* trimming: output_text trimmed, or else the trimmed non-blank texts of the
\* content items joined by newlines.
C3_AnswerIsTrimmedText ==
  \A r \in Requests :
    Done(r) =>
      /\ (Response(r).mode = "ai") <=> GatewayText(r)
      /\ GatewayText(r) =>
           /\ Configured
           /\ Len(campaigns[r]) > 0
           /\ responses[r] = <<SuccessResponse(TrimmedText(outcome[r].payload), "ai")>>

\* the gateway returned an output_text with blanks around the text, and the
\* answer in mode "ai" is shorter than what the gateway sent
C3_Witness ==
  \E r \in Requests :
    /\ Done(r) /\ GatewayText(r)
    /\ outcome[r].payload.output_text.t = "str"
    /\ Response(r).mode = "ai"
    /\ Len(Response(r).answer) < Len(outcome[r].payload.output_text.v)

\* C4: when the snapshot has no campaigns the response is the fixed
\* no-data message in mode "basic", whatever the question, and the request
\* has made no gateway call and no run of the composer, even with a
\* gateway configured.
C4_EmptyDatasetNoData ==
  \A r \in Requests :
    ReadDone(r) /\ Len(campaigns[r]) = 0 =>
      /\ Done(r)
      /\ responses[r] =
           <<SuccessResponse(
               "I do not have campaign data yet. Upload a CSV first, then ask again.",
               "basic")>>
      /\ httpCalls[r] = 0
      /\ timer[r] = NoTimer
      /\ composerRuns[r] = 0

\* a request over the empty dataset, with a gateway configured, has been
\* answered with the no-data message
C4_Witness ==
  \E r \in Requests :
    /\ ReadDone(r) /\ Len(campaigns[r]) = 0 /\ Configured
    /\ Done(r) /\ Response(r).answer = NoDataText

\* C5: with no API key in the environment no HTTP call is issued and no
\* abort timer is armed; a valid request over a dataset with rows goes to
\* the rule-based path and is answered in mode "basic", without an error.
C5_NoKeyNoCall ==
  ~Configured =>
    \A r \in Requests :
      /\ httpCalls[r] = 0
      /\ timer[r] = NoTimer
      /\ outcome[r] = NoOutcome
      /\ pc[r] \notin GatewayAwaits
      /\ Done(r) /\ ReadDone(r) /\ Len(campaigns[r]) > 0 =>
           /\ responses[r] = <<RuleBasedResponse(r)>>
           /\ composerRuns[r] = 1

\* without any API key, a request over a dataset with rows has been
\* answered by the composer
C5_Witness ==
  \E r \in Requests :
    /\ ~Configured /\ Done(r) /\ ReadDone(r) /\ Len(campaigns[r]) > 0
    /\ Response(r).mode = "basic"
    /\ composerRuns[r] = 1

\* C6: nothing is retried: a request issues at most one HTTP call to the
\* gateway and at most two reads of the dataset, the composer runs at most
\* once; once the gateway call has ended, in a failure or in a text, that
\* one call stays the only one and the handler is past the gateway; after
\* a failure the composer has run exactly once when the request ends.
C6_NoRetry ==
  \A r \in Requests :
    /\ httpCalls[r] <= 1
    /\ composerRuns[r] <= 1
    /\ dbReads[r] <= 2
    /\ outcome[r].kind # "none" =>
         pc[r] \in {"awaitAnswer", "done"} /\ httpCalls[r] = 1
    /\ Done(r) /\ GatewayFailure(r) => composerRuns[r] = 1

\* a request whose gateway call failed has ended after one HTTP call and
\* one run of the composer
C6_Witness ==
  \E r \in Requests :
    /\ Done(r) /\ outcome[r].kind = "notOk"
    /\ httpCalls[r] = 1
    /\ composerRuns[r] = 1

\* C7: a request that has ended carries exactly one response, and a request
\* that has not ended carries none; the response is either one answer
\* (success, status 200, a mode, no error) or one error (validation or
\* internal, no answer and no mode); an answer of the gateway is never
\* accompanied by a run of the composer.
C7_ExactlyOneResponse ==
  \A r \in Requests :
    /\ Len(responses[r]) = (IF Done(r) THEN 1 ELSE 0)
    /\ Done(r) =>
         /\ \/ /\ Response(r).success
               /\ Response(r).status = 200
               /\ Response(r).mode \in {"ai", "basic"}
               /\ Response(r).answer # ""
               /\ Response(r).error = ""
               /\ Response(r).details = {}
            \/ /\ ~Response(r).success
               /\ Response(r).status \in {400, 500}
               /\ Response(r).error \in {"Validation error", "Internal server error"}
               /\ Response(r).answer = ""
               /\ Response(r).mode = ""
         /\ Response(r).mode = "ai" => composerRuns[r] = 0
         /\ Response(r).mode = "basic" => composerRuns[r] <= 1

\* one request has ended with an answer of the gateway and another with a
\* validation error, each with its one response
C7_Witness ==
  \E r1, r2 \in Requests :
    /\ Done(r1) /\ Response(r1).mode = "ai" /\ Len(responses[r1]) = 1
    /\ Done(r2) /\ Response(r2).status = 400 /\ Len(responses[r2]) = 1

\* C8: the gateway call is bounded by the timeout of 15 seconds: while it
\* is awaited its abort timer is armed with 15000 ms (pending or fired);
\* once started it always ends; when it ends without the abort the timer
\* has been cancelled, and no timer is left pending once the call has
\* ended, on any of its exit paths.
C8_GatewayCallBounded ==
  /\ [](\A r \in Requests :
          pc[r] \in GatewayAwaits =>
            timer[r].state \in {"pending", "fired"} /\ timer[r].delay = 15000)
  /\ [](\A r \in Requests :
          pc[r] \in {"awaitAnswer", "done"} =>
            /\ timer[r].state # "pending"
            /\ outcome[r].kind \in {"transportError", "notOk", "badJson", "payload"}
                 => timer[r].state = "cleared"
            /\ outcome[r].kind = "timeout" => timer[r].state = "fired")
  /\ \A r \in Requests :
       (pc[r] \in GatewayAwaits) ~> (pc[r] \in {"awaitAnswer", "done"})

\* a gateway call was ended by the abort timer and the request was then
\* answered by the rule-based path
C8_Witness ==
  \E r \in Requests :
    /\ Done(r) /\ outcome[r].kind = "timeout"
    /\ timer[r].state = "fired" /\ aborted[r]
    /\ Response(r).mode = "basic"

\* the question of a body is no string, or its trimmed length is outside
\* 2..500
QuestionViolates(b) ==
  b.question.t # "str" \/ Len(Trim(b.question.v)) < 2 \/ Len(Trim(b.question.v)) > 500

\* C9: a request whose question or history violates the schema never reads
\* the dataset, never calls the gateway and never runs the composer, and it
\* ends with the validation error, status 400, whose issues name the field
\* at fault: the question exactly when the question violates the schema,
\* the history otherwise.
C9_InvalidRejected ==
  \A r \in Requests :
    body[r] \in InvalidBodies =>
      /\ dbReads[r] = 0
      /\ httpCalls[r] = 0
      /\ composerRuns[r] = 0
      /\ pc[r] \in {"awaitBody", "done"}
      /\ Done(r) =>
           /\ ~Response(r).success
           /\ Response(r).status = 400
           /\ Response(r).error = "Validation error"
           /\ Response(r).answer = ""
           /\ Response(r).details # {}
           /\ \A i \in Response(r).details :
                i.field = (IF QuestionViolates(body[r]) THEN "question" ELSE "history")

\* one request was rejected for its question and another for the content
\* of a message of its history
C9_Witness ==
  \E r1, r2 \in Requests :
    /\ Done(r1) /\ body[r1] \in InvalidBodies
    /\ \E i \in Response(r1).details : i.field = "question" /\ i.code = "too_small"
    /\ Done(r2) /\ body[r2] \in InvalidBodies
    /\ \E i \in Response(r2).details :
         i.field = "history" /\ i.index = 1 /\ i.sub = "content"

\* the response of the handler to the body of r when r runs alone over the
\* dataset, given what the reads and the gateway call of r did
AloneResponse(r) ==
  IF ~body[r].json THEN InternalErrorResponse
  ELSE IF ChatSchemaIssues(body[r]) # {}
       THEN ValidationErrorResponse(ChatSchemaIssues(body[r]))
  ELSE IF readFailed[r] THEN InternalErrorResponse
  ELSE IF Len(db.campaigns) = 0 THEN SuccessResponse(NoDataText, "basic")
  ELSE IF getAiConfig(env) # NoConfig /\ GatewayText(r)
       THEN SuccessResponse(extractResponseText(outcome[r].payload), "ai")
  ELSE SuccessResponse(
         buildRuleBasedAnswer(Trim(body[r].question.v), db.campaigns,
                              ChatSchemaParse(body[r]).history, db.ads),
         "basic")

\* C10: requests share no mutable state: in every interleaving of the
\* requests over one dataset, the response of each request is the response
\* it gets alone for its body, its reads and its gateway call; and no step
\* of a request changes the dataset or the environment.
C10_Isolation ==
  /\ [](\A r \in Requests : Done(r) => responses[r] = <<AloneResponse(r)>>)
  /\ [][db' = db /\ env' = env]_vars

\* two requests with different valid bodies have run together over the
\* dataset with rows, one answered by the gateway, the other by the composer
C10_Witness ==
  \E r1, r2 \in Requests :
    /\ Done(r1) /\ Done(r2) /\ Passed(r1) /\ Passed(r2)
    /\ body[r1] # body[r2]
    /\ Response(r1).mode = "ai"
    /\ Response(r2).mode = "basic" /\ composerRuns[r2] = 1

(***************************************************************************)
(* The functions of the composer, applied one at a time: the initial state *)
(* holds the arguments of one call, and the one step applies the function. *)
(***************************************************************************)
\* a word of a question, with the polarity word it carries ("" for none)
Word(text, signal) == [text |-> text, signal |-> signal]

OrderWords ==
  {Word(w, w) : w \in {"lowest", "least", "min", "bottom", "highest", "most",
                         "max", "top", "best", "worst"}}
    \cup {Word("Lowest", "lowest"), Word("WORST", "worst"),
          Word("minimum", ""), Word("show", "")}

SecondWords ==
  {Word("the", ""), Word("top", "top"), Word("lowest", "lowest"),
   Word("worst", "worst"), Word("best", "best")}

Metrics == {"cpc", "cpm", "ctr", "spend", "clicks", "impressions", "results", "none"}

\* detectOrder(query, metric): query is the two words and "campaigns"
DetectOrderInputs ==
  {[fn |-> "detectOrder",
    query |-> w1.text \o " " \o w2.text \o " campaigns",
    signals |-> {w1.signal, w2.signal} \ {""},
    metric |-> m] : w1 \in OrderWords, w2 \in SecondWords, m \in Metrics}

\* a count written after a word: n is the number and text how it is written
\* (Null and "" for no count)
Count(n, text) == [n |-> n, text |-> text]

TopNCounts ==
  {Count(Null, ""), Count(0, " 0"), Count(1, " 1"), Count(3, "  3"), Count(7, " 07"),
   Count(10, " 10"), Count(11, " 11"), Count(25, " 25"), Count(99, " 99"),
   Count(100, " 100")}

\* findTopN(query): query is a word, a count and a tail
FindTopNInputs ==
  {[fn |-> "findTopN",
    query |-> "show " \o w \o c.text \o " campaigns by spend",
    word |-> w,
    count |-> c.n] :
     w \in TopNWords \cup {"Top", "WORST", "first"}, c \in TopNCounts}

\* an ad row with these numbers; the upload stores cpc 0 for every ad, the
\* seed stores spend / clicks, and the column may be null
AdRow(spend, impressions, clicks, cpc) ==
  [id |-> "a1", name |-> "Alpha Video", campaignName |-> "Alpha Launch",
   adSetName |-> "Prospecting", spend |-> spend, impressions |-> impressions,
   clicks |-> clicks, results |-> 0, cpc |-> cpc, cpm |-> 0]

DeriveAdInputs ==
  {[fn |-> "deriveAd", ad |-> AdRow(spend, v[1], v[2], cpc)] :
     spend \in {0, 500, 10000},
     v \in {w \in {0, 50, 99, 100, 1000} \X {0, 5, 10} : w[2] <= w[1]},
     cpc \in {Null, 0, 100, 1000}}

\* a phrase of a question, with the tag that names what it asks for
Phrase(text, tag) == [text |-> text, tag |-> tag]

Phrases ==
  <<Phrase("how many", "count"), Phrase("campaigns", "campaign"),
    Phrase("ads", "ads"), Phrase("efficiency score", "efficiency"),
    Phrase("top", "top"), Phrase("best", "best"), Phrase("worst", "worst"),
    Phrase("performing", "perform"), Phrase("what is", "define"),
    Phrase("ctr", "ctr"), Phrase("cpc", "cpc"), Phrase("cpm", "cpm"),
    Phrase("spend", "spend"), Phrase("clicks", "clicks"),
    Phrase("impressions", "impressions"), Phrase("total", "total"),
    Phrase("summary", "summary"), Phrase("platform", "platform"),
    Phrase("compare", "compare"), Phrase("\"Alpha Launch\"", "alpha"),
    Phrase("\"Beta Promo\"", "beta"), Phrase("the second one", "second"),
    Phrase("recommend", "recommend")>>

\* the sets of one to three positions of Phrases
PhraseSets ==
  {{t[1], t[2], t[3]} :
     t \in {u \in (1..Len(Phrases)) \X (1..Len(Phrases)) \X (1..Len(Phrases)) :
              u[1] <= u[2] /\ u[2] <= u[3]}}

\* the phrases at the positions S, in the order of Phrases, with one space
\* between two of them
RECURSIVE PhraseText(_)
PhraseText(S) ==
  IF S = {} THEN ""
  ELSE Phrases[MinOf(S)].text
         \o (IF Cardinality(S) > 1 THEN " " ELSE "")
         \o PhraseText(S \ {MinOf(S)})

PhraseTags(S) == {Phrases[i].tag : i \in S}

\* buildRuleBasedAnswer(question, campaigns, history, ads) over the imported
\* rows: question is made of phrases, and history is empty or, for a
\* question with an ordinal, also the ranked list of two campaigns
ComposeInputs ==
  {[fn |-> "compose", question |-> PhraseText(p[1]), tags |-> PhraseTags(p[1]),
    history |-> p[2], campaigns |-> ImportCampaigns, ads |-> ImportAds] :
     p \in {x \in PhraseSets \X {<<>>, RankedHistory} :
              x[2] # <<>> => "second" \in PhraseTags(x[1])}}

\* "<word> campaign by <metric>" over the imported rows, with no history
RankByInputs ==
  {[fn |-> "compose", question |-> w \o " campaign by " \o m,
    tags |-> {w, "campaign", m},
    history |-> <<>>, campaigns |-> ImportCampaigns, ads |-> ImportAds] :
     w \in {"top", "best", "worst"}, m \in {"ctr", "cpc", "cpm", "spend"}}

\* a part of a question for the resolver: its text ("" for none) and the
\* campaigns, ordinals or flag it stands for
Part(text, means) == [text |-> text, means |-> means]

QuotedParts ==
  {Part("", <<>>), Part("\"Alpha Launch\"", <<"c1">>), Part("\"Gamma Sale\"", <<>>),
   Part("\"Beta Promo\" and \"Alpha Launch\"", <<"c2", "c1">>)}

\* unquoted words of campaign names: the share of the name's tokens that
\* occur is 1 or 1/2, in the last part for both campaigns
FuzzyParts ==
  {Part("", <<>>), Part("beta promo", <<"c2">>), Part("launch", <<"c1">>),
   Part("alpha promo", <<"c1", "c2">>)}

BothParts == {Part("", FALSE), Part("both", TRUE), Part("those two", TRUE)}

\* the zero-based indexes the part refers to, those of the named ordinals
\* before those of the numbers
OrdinalParts ==
  {Part("", <<>>), Part("the second one", <<1>>), Part("number 1", <<0>>),
   Part("the third one", <<2>>), Part("number 1 or the second one", <<1, 0>>)}

PronounParts == {Part("", FALSE), Part("that one", TRUE), Part("about it", TRUE)}

\* a history, with the campaigns of its latest ranked list of an assistant
\* message and the campaigns of its latest message that mentions any
PastTurns(history, ranked, mentioned) ==
  [history |-> history, ranked |-> ranked, mentioned |-> mentioned]

Histories ==
  {PastTurns(<<>>, <<>>, <<>>),
   PastTurns(RankedHistory, <<"c1", "c2">>, <<"c1", "c2">>),
   PastTurns(<<Message("assistant", "1. Beta Promo - 4.00%\n2. Alpha Launch - 1.00%")>>,
             <<"c2", "c1">>, <<"c2", "c1">>),
   PastTurns(<<Message("assistant", "1. Beta Promo - $50.00 spend")>>,
             <<"c2">>, <<"c2">>),
   PastTurns(<<Message("user", "what about \"Alpha Launch\"?")>>, <<>>, <<"c1">>),
   PastTurns(<<Message("assistant", "1. Beta Promo - $50.00 spend"),
               Message("user", "and \"Alpha Launch\"?")>>,
             <<"c2">>, <<"c1">>)}

\* the texts that are not empty, with one space between two of them
Spaced(texts) == Join(SelectSeq(texts, LAMBDA t : t # ""), " ")

\* resolveCampaignReferences(question, history, campaigns) over the
\* imported campaigns: question is an opening and the parts
ResolveInputs ==
  {[fn |-> "resolve",
    question |-> Spaced(<<open, p[1].text, p[2].text, p[3].text, p[4].text, p[5].text>>),
    history |-> h.history, campaigns |-> ImportCampaigns,
    quoted |-> p[1].means, fuzzy |-> p[2].means, both |-> p[3].means,
    ordinals |-> p[4].means, pronoun |-> p[5].means,
    ranked |-> h.ranked, mentioned |-> h.mentioned] :
     open \in {"show", "tell me about"},
     p \in QuotedParts \X FuzzyParts \X BothParts \X OrdinalParts \X PronounParts,
     h \in Histories}

\* "tell me about the second one" over the imported rows, after each
\* history with a ranked list of two campaigns
OrdinalInputs ==
  {[fn |-> "compose", question |-> "tell me about the second one",
    tags |-> {"second"},
    history |-> h.history, campaigns |-> ImportCampaigns, ads |-> ImportAds] :
     h \in {x \in Histories : Len(x.ranked) >= 2}}

\* a third campaign with this name, after the two imported ones
WithCampaign(name) ==
  ImportCampaigns \o
    <<[id |-> "c3", name |-> name, spend |-> 2000, impressions |-> 400,
       clicks |-> 4, results |-> 1, cpc |-> 500, cpm |-> 5000, platform |-> "facebook"]>>

\* names of a third campaign: one that shares its tokens with Alpha Launch,
\* two with the normalized form of Beta Promo, one of one character, and
\* names of 140, 141 and 143 characters, the last sharing two tokens
ThirdNames ==
  {"Alpha Launch 2", "beta promo", "Beta-Promo!", "Q", Repeat("y", 140),
   Repeat("x", 141), "Alpha Launch " \o Repeat("z", 130)}

\* resolveCampaignReferences(question, [], campaigns): question quotes the
\* exact name of the campaign at position named of the dataset
QuotedNameInputs ==
  {[fn |-> "resolveNamed",
    question |-> "show \"" \o WithCampaign(p[1])[p[2]].name \o "\"",
    history |-> <<>>, campaigns |-> WithCampaign(p[1]),
    named |-> WithCampaign(p[1])[p[2]].id] :
     p \in ThirdNames \X (1..3)}

\* a message of a history, with the names its numbered lines list
Turn(role, content, names) == [role |-> role, content |-> content, names |-> names]

Turns ==
  {Turn("assistant", "1. Alpha Launch - $100.00\n2. Beta Promo - $50.00",
        <<"Alpha Launch", "Beta Promo">>),
   Turn("assistant", "Campaign by CTR:\n 1. Beta Promo - 4.00%", <<"Beta Promo">>),
   Turn("assistant", "1. Gamma Sale - $5.00\n2. Delta Push - $1.00",
        <<"Gamma Sale", "Delta Push">>),
   Turn("assistant", "Total spend is $150.00 across 2 campaigns.", <<>>),
   Turn("user", "1. Beta Promo - is that the best?", <<"Beta Promo">>),
   Turn("user", "top 2 campaigns by spend", <<>>)}

\* the greatest length of a history made of Turns
MaxTurns == 4

TurnSeqs == UNION {[1..n -> Turns] : n \in 0..MaxTurns}

MessagesOf(turns) == [i \in 1..Len(turns) |-> Message(turns[i].role, turns[i].content)]

\* extractRankedNames(history): history is a sequence of Turns
ExtractRankedInputs ==
  {[fn |-> "extractRankedNames", history |-> MessagesOf(t), turns |-> t] : t \in TurnSeqs}

\* resolveCampaignReferences(question, history, campaigns) for a question
\* that refers to the ranked list only, over the imported campaigns
RankedReferenceInputs ==
  {[fn |-> "resolveRanked", question |-> q, history |-> MessagesOf(t),
    campaigns |-> ImportCampaigns, turns |-> t] :
     q \in {"show the first one", "compare both"},
     t \in {x \in TurnSeqs : Len(x) <= 3}}

\* a phrase with an ordinal, and the zero-based index it names
\* (Null for a number outside 1..10)
OrdinalPhrases ==
  {Part("the first", 0), Part("second", 1), Part("third", 2), Part("tenth", 9),
   Part("2nd one", 1), Part("number 3", 2), Part("#1", 0), Part("11th one", Null),
   Part("number 12", Null)}

\* the sets of one to three ordinal phrases
OrdinalPhraseSets ==
  {{t[1], t[2], t[3]} : t \in OrdinalPhrases \X OrdinalPhrases \X OrdinalPhrases}

\* the texts of the phrases of S with " and " between two of them, in the
\* order of the texts
RECURSIVE AndText(_)
AndText(S) ==
  IF S = {} THEN ""
  ELSE LET p == CHOOSE x \in S : \A y \in S : Len(x.text) <= Len(y.text)
       IN p.text \o (IF Cardinality(S) > 1 THEN " and " ELSE "") \o AndText(S \ {p})

\* histories over the dataset of three campaigns: ranked lists of one, two
\* and three campaigns, one that lists a campaign twice, and a mention
\* without a list
OrdinalHistories ==
  {PastTurns(<<>>, <<>>, <<>>),
   PastTurns(<<Message("assistant", "1. Beta Promo - $50.00 spend")>>,
             <<"c2">>, <<"c2">>),
   PastTurns(RankedHistory, <<"c1", "c2">>, <<"c1", "c2">>),
   PastTurns(<<Message("assistant",
                 "1. Gamma Sale - $20.00\n2. Alpha Launch - $100.00\n3. Beta Promo - $50.00")>>,
             <<"c3", "c1", "c2">>, <<"c3", "c1", "c2">>),
   PastTurns(<<Message("assistant",
                 "1. Beta Promo - 4.00%\n2. Alpha Launch - 1.00%\n3. Beta Promo - 4.00%")>>,
             <<"c2", "c1">>, <<"c2", "c1">>),
   PastTurns(<<Message("user", "what about \"Gamma Sale\"?")>>, <<>>, <<"c3">>)}

\* resolveCampaignReferences(question, history, campaigns) for a question
\* with ordinals, with or without a pronoun, and no campaign name
OrdinalReferenceInputs ==
  {[fn |-> "resolveOrdinal",
    question |-> "show " \o AndText(S) \o (IF pronoun THEN " or that one" ELSE ""),
    history |-> h.history, campaigns |-> WithCampaign("Gamma Sale"),
    named |-> {p.means : p \in S} \ {Null}, pronoun |-> pronoun,
    ranked |-> h.ranked, mentioned |-> h.mentioned] :
     S \in OrdinalPhraseSets, pronoun \in BOOLEAN, h \in OrdinalHistories}

\* the part of the gateway prompt made from the history: the last 8
\* messages as "role: content" lines
recentHistory(history) ==
  LET last == SubSeq(history, Max2(1, Len(history) - 7), Len(history))
  IN Join([i \in 1..Len(last) |-> last[i].role \o ": " \o last[i].content], "\n")

\* ten messages without a name or a numbered line, and ten that open with a
\* ranked list
PlainTurns ==
  [i \in 1..10 |-> IF i % 2 = 1 THEN Message("user", "summary")
                   ELSE Message("assistant", "Total clicks are 30.")]

ListedTurns ==
  [PlainTurns EXCEPT ![1] = Message("assistant",
                                    "1. Beta Promo - 4.00%\n2. Alpha Launch - 1.00%")]

\* the messages that precede the last ten, at most HistoryMax - 10
OlderTurns ==
  {<<>>,
   RankedHistory,
   <<Message("assistant", "1. Beta Promo - $50.00\n2. Alpha Launch - $100.00")>>,
   RankedHistory \o SubSeq(PlainTurns, 1, 4),
   <<Message("user", "what about \"Beta Promo\"?")>>}

\* buildRuleBasedAnswer and the prompt of getAiAnswer for one question over
\* the imported rows and two histories with the same last ten messages
TwoHistoriesInputs ==
  {[fn |-> "twoHistories", question |-> q,
    history1 |-> p[1] \o recent, history2 |-> p[2] \o recent,
    campaigns |-> ImportCampaigns, ads |-> ImportAds] :
     q \in {"tell me about the second one", "what about that one", "compare both",
            "summary"},
     p \in OlderTurns \X OlderTurns,
     recent \in {PlainTurns, ListedTurns}}

\* campaign rows for the rankings: Zero Reach has no spend, impression or
\* click, and Tie Twin has the numbers of Alpha Launch
RankCampaign(id, name, spend, impressions, clicks, results) ==
  [id |-> id, name |-> name, spend |-> spend, impressions |-> impressions,
   clicks |-> clicks, results |-> results, cpc |-> Null, cpm |-> Null,
   platform |-> "facebook"]

RankCampaigns ==
  <<RankCampaign("c1", "Alpha Launch", 10000, 1000, 10, 2),
    RankCampaign("c2", "Beta Promo", 5000, 500, 20, 0),
    RankCampaign("c3", "Tie Twin", 10000, 1000, 10, 2),
    RankCampaign("c4", "Zero Reach", 0, 0, 0, 0)>>

\* ad rows for the rankings: Zero Ad has no spend, impression or click, Twin
\* Video the numbers of Alpha Video, and Small Ad fewer than 100 impressions
RankAd(id, name, campaignName, spend, impressions, clicks, results) ==
  [id |-> id, name |-> name, campaignName |-> campaignName, adSetName |-> "",
   spend |-> spend, impressions |-> impressions, clicks |-> clicks,
   results |-> results, cpc |-> 0, cpm |-> 0]

RankAds ==
  <<RankAd("a1", "Alpha Video", "Alpha Launch", 10000, 1000, 10, 2),
    RankAd("a2", "Beta Carousel", "Beta Promo", 5000, 500, 20, 0),
    RankAd("a3", "Twin Video", "Tie Twin", 10000, 1000, 10, 2),
    RankAd("a4", "Zero Ad", "Alpha Launch", 0, 0, 0, 0),
    RankAd("a5", "Small Ad", "Beta Promo", 100, 50, 5, 0)>>

\* the orders in which the dataset holds n rows
RowOrders(n) ==
  {[i \in 1..n |-> i], [i \in 1..n |-> n + 1 - i], [i \in 1..n |-> (i % n) + 1]}

Reordered(rows, order) == [i \in 1..Len(rows) |-> rows[order[i]]]

\* the counts a ranking question asks for (Null for none)
RankCounts == {Count(Null, ""), Count(2, " 2"), Count(3, " 3"), Count(10, " 10")}

RankWords == {"top", "best", "highest", "worst", "lowest"}

\* "<word> <count> campaigns by <metric>" over the campaigns in each order
CampaignRankInputs ==
  {[fn |-> "rank", of |-> "campaigns",
    question |-> w \o c.text \o " campaigns by " \o m,
    word |-> w, count |-> c.n, metric |-> m, performing |-> FALSE,
    history |-> <<>>, campaigns |-> Reordered(RankCampaigns, o), ads |-> RankAds] :
     w \in RankWords, c \in RankCounts,
     m \in {"spend", "clicks", "impressions", "results"},
     o \in RowOrders(Len(RankCampaigns))}

\* "<word> <count> [performing] ads [by <metric>]" over the ads in each order
AdRankInputs ==
  {[fn |-> "rank", of |-> "ads",
    question |-> w \o c.text \o (IF p THEN " performing" ELSE "") \o " ads"
                   \o (IF m = "none" THEN "" ELSE " by " \o m),
    word |-> w, count |-> c.n, metric |-> m, performing |-> p,
    history |-> <<>>, campaigns |-> RankCampaigns, ads |-> Reordered(RankAds, o)] :
     w \in RankWords, c \in RankCounts, p \in BOOLEAN,
     m \in {"spend", "clicks", "impressions", "results", "ctr", "cpc", "cpm", "none"},
     o \in RowOrders(Len(RankAds))}

\* ads of which none has 100 impressions and a click
LowAds ==
  <<RankAd("a5", "Small Ad", "Beta Promo", 100, 50, 5, 0),
    RankAd("a4", "Zero Ad", "Alpha Launch", 0, 0, 0, 0),
    RankAd("a6", "Unclicked Ad", "Alpha Launch", 3000, 1000, 0, 0)>>

\* questions answered from the efficiency score, with no ad mentioned
\* before: rankings without a metric word, and the definition with its
\* example
EfficiencyInputs ==
  {[fn |-> "efficiency", asks |-> p[1].means, question |-> p[1].text,
    history |-> <<>>, campaigns |-> RankCampaigns, ads |-> p[2]] :
     p \in {Part("which ad is the winner", "ranking"),
            Part("best performing ads", "ranking"),
            Part("worst 3 performing ads", "ranking"),
            Part("top 10 best ads", "ranking"),
            Part("what is efficiency score", "definition"),
            Part("efficiency score", "definition"),
            Part("how is the efficiency score calculated", "definition")}
          \X ({Reordered(RankAds, o) : o \in RowOrders(Len(RankAds))} \cup {LowAds})}

\* a history whose contents have an open quote, a quoted name of one
\* character and numbered lines without a name
OddHistory ==
  <<Message("assistant", "1. \n2. - \n\"\" \"x\" 3. - 4"),
    Message("user", "what about \"Alpha")>>

\* a dataset of one campaign without spend, impressions or clicks, and no ad
IdleCampaigns == <<RankCampaign("c9", "Idle", 0, 0, 0, 0)>>

\* questions of every kind, of which the unmatched ones meet the condition
\* of no handler, after three histories and over three datasets
OddInputs ==
  {[fn |-> "odd", question |-> p[1].text, unmatched |-> p[1].means,
    history |-> p[2], campaigns |-> p[3][1], ads |-> p[3][2]] :
     p \in {Part("hello there", TRUE), Part("?", TRUE), Part("thanks!!", TRUE),
            Part(Repeat("zq ", 40), TRUE), Part("1. - \"", TRUE),
            Part("summary", FALSE), Part("recommend optimizations", FALSE),
            Part("top 3 campaigns by ctr", FALSE), Part("lowest 10 by cpm", FALSE),
            Part("compare those two", FALSE), Part("what about it", FALSE),
            Part("the 9th one vs #0", FALSE), Part("best ad", FALSE),
            Part("worst 5 ads by cpc", FALSE), Part("platform", FALSE),
            Part("overall results", FALSE), Part("average cpc", FALSE),
            Part("what is efficiency score", FALSE), Part("how many ads", FALSE)}
          \X {<<>>, RankedHistory, OddHistory}
          \X {<<ImportCampaigns, ImportAds>>, <<RankCampaigns, LowAds>>,
              <<IdleCampaigns, <<>>>>}}

\* a ranking question, and the question of the next request, whose history
\* ends with the ranking question and the answer it got
RoundTripInputs ==
  {[fn |-> "roundTrip", of |-> p[1].of, question |-> p[1].question,
    count |-> p[1].count, campaigns |-> p[1].campaigns, ads |-> p[1].ads,
    followUp |-> p[2]] :
     p \in {r \in CampaignRankInputs \cup AdRankInputs :
              r.metric \in {"spend", "clicks", "ctr", "none"}}
          \X {"what about the second one", "compare those two"}}

FnInputs ==
  DetectOrderInputs \cup FindTopNInputs \cup DeriveAdInputs
    \cup ComposeInputs \cup RankByInputs \cup ResolveInputs
    \cup OrdinalInputs \cup QuotedNameInputs
    \cup ExtractRankedInputs \cup RankedReferenceInputs
    \cup OrdinalReferenceInputs \cup TwoHistoriesInputs
    \cup CampaignRankInputs \cup AdRankInputs \cup EfficiencyInputs
    \cup OddInputs \cup RoundTripInputs

FnInit ==
  /\ db = [campaigns |-> <<>>, ads |-> <<>>]
  /\ env = Env("", "", "")
  /\ pc = [r \in Requests |-> "idle"]
  /\ body = [r \in Requests |-> NoBody]
  /\ parsed = [r \in Requests |-> NoParsed]
  /\ campaigns = [r \in Requests |-> <<>>]
  /\ ads = [r \in Requests |-> <<>>]
  /\ timer = [r \in Requests |-> NoTimer]
  /\ aborted = [r \in Requests |-> FALSE]
  /\ responses = [r \in Requests |-> <<>>]
  /\ outcome = [r \in Requests |-> NoOutcome]
  /\ dbReads = [r \in Requests |-> 0]
  /\ readFailed = [r \in Requests |-> FALSE]
  /\ httpCalls = [r \in Requests |-> 0]
  /\ composerRuns = [r \in Requests |-> 0]
  /\ input \in FnInputs
  /\ output = NoOutput
  /\ ChatInit

\* the call returns value
Returned(value) ==
  /\ ~output.done
  /\ output' = [done |-> TRUE, value |-> value]
  /\ UNCHANGED <<input, vars, chatVars>>

ApplyDetectOrder ==
  /\ input.fn = "detectOrder"
  /\ Returned(detectOrder(input.query, input.metric))

ApplyFindTopN ==
  /\ input.fn = "findTopN"
  /\ Returned(findTopN(input.query))

ApplyDeriveAd ==
  /\ input.fn = "deriveAd"
  /\ Returned(DerivedAd(input.ad))

ApplyCompose ==
  /\ input.fn \in {"compose", "rank", "efficiency", "odd"}
  /\ Returned(ComposeAnswer(input.question, input.campaigns, input.history, input.ads))

\* the ids of the rows, in order
Ids(rows) == [i \in 1..Len(rows) |-> rows[i].id]

ApplyResolve ==
  /\ input.fn \in {"resolve", "resolveNamed", "resolveRanked", "resolveOrdinal"}
  /\ Returned(Ids(resolveCampaignReferences(input.question, input.history,
                                            input.campaigns)))

ApplyExtractRankedNames ==
  /\ input.fn = "extractRankedNames"
  /\ Returned(extractRankedNames(input.history))

\* the two calls, one after the other: the answers and the prompt parts
ApplyTwoHistories ==
  /\ input.fn = "twoHistories"
  /\ Returned([answers |->
                 <<buildRuleBasedAnswer(input.question, input.campaigns,
                                        input.history1, input.ads),
                   buildRuleBasedAnswer(input.question, input.campaigns,
                                        input.history2, input.ads)>>,
               prompts |-> <<recentHistory(input.history1),
                             recentHistory(input.history2)>>])

\* two requests in a row: the answer to the ranking question is the last
\* assistant message of the history of the next request, from which the
\* ranked names are extracted and the follow-up question is resolved
ApplyRoundTrip ==
  LET Next2(answer) ==
        LET history == <<Message("user", input.question),
                         Message("assistant", answer)>>
        IN [answer |-> answer,
            memory |-> extractRankedNames(history),
            referred |-> Ids(resolveCampaignReferences(input.followUp, history,
                                                       input.campaigns)),
            followUpAnswer |-> ComposeAnswer(input.followUp, input.campaigns,
                                             history, input.ads).handler]
  IN /\ input.fn = "roundTrip"
     /\ Returned(Next2(buildRuleBasedAnswer(input.question, input.campaigns,
                                            <<>>, input.ads)))

FnNext ==
  \/ ApplyDetectOrder
  \/ ApplyFindTopN
  \/ ApplyDeriveAd
  \/ ApplyCompose
  \/ ApplyResolve
  \/ ApplyExtractRankedNames
  \/ ApplyTwoHistories
  \/ ApplyRoundTrip

FnSpec == FnInit /\ [][FnNext]_<<vars, input, output>>

\* the call of fn has returned
Applied(fn) == input.fn = fn /\ output.done

CampaignName(id) ==
  LET i == CHOOSE j \in 1..Len(ImportCampaigns) : ImportCampaigns[j].id = id
  IN ImportCampaigns[i].name

\* C13: when the latest assistant message with numbered lines lists two
\* campaigns of the dataset, "tell me about the second one" resolves to the
\* second of them alone and the answer is the entity profile of that
\* campaign, not a ranking; in general a question with one ordinal k, no
\* campaign name and no "both" resolves to the k-th entry of the ranked
\* list.
C13_OrdinalSelectsEntry ==
  /\ /\ Applied("resolve")
     /\ input.quoted = <<>> /\ input.fuzzy = <<>> /\ ~input.both
     /\ Len(input.ordinals) = 1
     => /\ input.ordinals[1] < Len(input.ranked) =>
             output.value = <<input.ranked[input.ordinals[1] + 1]>>
        /\ input.question = "tell me about the second one" /\ Len(input.ranked) = 2 =>
             output.value = <<input.ranked[2]>>
  /\ Applied("compose") /\ input.question = "tell me about the second one" =>
       \A h \in Histories :
         h.history = input.history /\ Len(h.ranked) = 2 =>
           /\ output.value.handler = "profile"
           /\ Includes(output.value.answer,
                       "\"" \o CampaignName(h.ranked[2]) \o "\" summary:")
           /\ ~Includes(output.value.answer, CampaignName(h.ranked[1]))

\* "tell me about the second one" after the list of Alpha Launch and Beta
\* Promo has been answered with the profile of Beta Promo
C13_Witness ==
  /\ Applied("compose")
  /\ input.question = "tell me about the second one"
  /\ input.history = RankedHistory
  /\ output.value.handler = "profile"
  /\ Includes(output.value.answer, "\"Beta Promo\" summary:")

\* C14: for every campaign name of the dataset, a question that contains
\* that exact name inside double quotes makes the resolver return exactly
\* that campaign and no other, whatever the length of the name and also
\* when another campaign has a name of the same normalized form or shares
\* tokens with it.
C14_QuotedNameResolves ==
  Applied("resolveNamed") => output.value = <<input.named>>

\* C15: for every ad row the derived efficiencyScore is exactly 0 whenever
\* clicks = 0 or impressions < 100.
C15_ScoreZeroBelowThreshold ==
  Applied("deriveAd") /\ (input.ad.clicks = 0 \/ input.ad.impressions < 100) =>
    output.value.efficiencyScore = Rat(0, 1)

\* C16: detectOrder maps the polarity words of the question to an order:
\* lowest/least/min/bottom give ascending whatever the metric, and
\* highest/most/max/top descending; without those, best gives ascending for
\* cpc and cpm and descending for every other metric, worst the inverse of
\* best, and no polarity word the same as best.  So (best, cpc) is
\* ascending, (worst, spend) ascending and (worst, cpc) descending.
C16_DetectOrder ==
  Applied("detectOrder") =>
    /\ output.value \in {"asc", "desc"}
    /\ output.value =
         (IF input.signals \cap {"lowest", "least", "min", "bottom"} # {} THEN "asc"
          ELSE IF input.signals \cap {"highest", "most", "max", "top"} # {} THEN "desc"
          ELSE IF "best" \in input.signals \/ "worst" \notin input.signals
               THEN (IF input.metric \in {"cpc", "cpm"} THEN "asc" ELSE "desc")
          ELSE (IF input.metric \in {"cpc", "cpm"} THEN "desc" ELSE "asc"))
    /\ input.signals = {"best"} /\ input.metric = "cpc" => output.value = "asc"
    /\ input.signals = {"worst"} /\ input.metric = "spend" => output.value = "asc"
    /\ input.signals = {"worst"} /\ input.metric = "cpc" => output.value = "desc"

\* detectOrder has answered descending for worst with the metric cpc
C16_Witness ==
  /\ Applied("detectOrder")
  /\ input.signals = {"worst"} /\ input.metric = "cpc"
  /\ output.value = "desc"

\* C17: findTopN returns an integer from 1 to 10: a count of one or two
\* digits after top/best/highest/lowest/worst/least/most is clamped (25
\* gives 10, 0 gives 1, 1..10 give themselves), and a question with no
\* count after such a word gives 1.
C17_FindTopNClamped ==
  Applied("findTopN") =>
    /\ output.value \in 1..10
    /\ input.count = Null \/ input.word = "first" => output.value = 1
    /\ input.word # "first" /\ input.count # Null /\ input.count < 100 =>
         output.value = (IF input.count > 10 THEN 10
                         ELSE IF input.count < 1 THEN 1
                         ELSE input.count)

\* findTopN has clamped the count 25 to 10
C17_Witness ==
  /\ Applied("findTopN")
  /\ input.word = "top" /\ input.count = 25
  /\ output.value = 10

\* C18: for every ad efficiencyScore equals ctr / max(safeCpc, 0.01), with
\* the safeCpc of the same row (spend / clicks when clicks > 0, the stored
\* cpc otherwise).  Money is in cents, so max(safeCpc, 0.01) is the larger
\* of safeCpc and one cent.
C18_ScoreUsesSafeCpc ==
  Applied("deriveAd") =>
    /\ output.value.safeCpc =
         (IF input.ad.clicks > 0 THEN Rat(input.ad.spend, input.ad.clicks)
          ELSE Rat(OrZero(input.ad.cpc), 1))
    /\ RatEq(output.value.efficiencyScore,
             RatDiv(RatDiv(output.value.ctr, Rat(1, 100)),
                    RatMax(output.value.safeCpc, Rat(1, 1))))

\* C12: a campaign ranking question that names the metric by its
\* abbreviation, "top/best/worst campaign by ctr|cpc|cpm", is answered by
\* the campaign top/worst-N handler; over the campaigns Alpha Launch (spend
\* 100, clicks 10, impressions 1000) and Beta Promo (spend 50, clicks 20,
\* impressions 500) with no history, "top campaign by ctr" is answered with
\* Beta Promo alone, at 4.00%.
C12_RankByAbbreviation ==
  /\ Applied("compose")
  /\ input.history = <<>>
  /\ Includes(input.question, " campaign by ")
  /\ input.tags \cap {"ctr", "cpc", "cpm"} # {}
  => /\ output.value.handler = "campaignRanking"
     /\ input.question = "top campaign by ctr" =>
          /\ Includes(output.value.answer, "Beta Promo - 4.00%")
          /\ ~Includes(output.value.answer, "Alpha Launch")

\* the handlers of the composer in the order of the specification
HandlerOrder ==
  <<"countCampaigns", "countAds", "efficiency", "adRanking", "definition",
    "summary", "platform", "totalSpend", "totalImpressions", "totalClicks",
    "totalResults", "overallCtr", "averageCpc", "averageCpm", "comparison",
    "profile", "campaignRanking", "recommendations", "help">>

\* the campaigns a question with these tags refers to, after this history:
\* the quoted names, and without one the ordinal into the ranked list
ReferredCount(tags, history) ==
  IF tags \cap {"alpha", "beta"} # {} THEN Cardinality(tags \cap {"alpha", "beta"})
  ELSE IF "second" \in tags /\ history # <<>> THEN 1
  ELSE 0

\* the condition of a handler holds for a question with these tags that
\* refers to this many campaigns of a dataset that is not empty
ConditionHolds(handler, tags, referred) ==
  LET ranks == tags \cap {"top", "best", "worst"} # {}
      performs == ranks \/ "perform" \in tags
      metrics == tags \cap {"ctr", "cpc", "cpm", "spend", "clicks", "impressions"}
  IN CASE handler = "countCampaigns" -> {"count", "campaign"} \subseteq tags
       [] handler = "countAds" -> {"count", "ads"} \subseteq tags
       [] handler = "efficiency" ->
            "efficiency" \in tags /\ ("define" \in tags \/ ~performs)
       [] handler = "adRanking" -> "ads" \in tags /\ performs
       [] handler = "definition" ->
            "define" \in tags /\ metrics \ {"spend"} # {}
       [] handler = "summary" -> "summary" \in tags
       [] handler = "platform" -> "platform" \in tags
       [] handler = "totalSpend" -> {"total", "spend"} \subseteq tags
       [] handler = "totalImpressions" -> {"total", "impressions"} \subseteq tags
       [] handler = "totalClicks" -> {"total", "clicks"} \subseteq tags
       [] handler = "totalResults" -> FALSE
       [] handler = "overallCtr" -> "ctr" \in tags
       [] handler = "averageCpc" -> "cpc" \in tags
       [] handler = "averageCpm" -> "cpm" \in tags
       [] handler = "comparison" -> "compare" \in tags /\ referred >= 2
       [] handler = "profile" -> referred >= 1
       [] handler = "campaignRanking" ->
            ranks /\ ("campaign" \in tags \/ metrics # {})
       [] handler = "recommendations" -> "recommend" \in tags
       [] handler = "help" -> TRUE

\* the position in HandlerOrder of the handler that answered
HandlerPosition(handler) == CHOOSE i \in 1..Len(HandlerOrder) : HandlerOrder[i] = handler

\* C19: the composer evaluates its handlers in a fixed order (counts,
\* efficiency definition, ad top/worst, metric definition, summary,
\* platform breakdown, totals, account-wide CTR/CPC/CPM, comparison, entity
\* profile, campaign top/worst-N, recommendations, help), and the answer
\* comes from the first handler whose condition holds: the condition of the
\* handler that answered holds, and the condition of no earlier handler.
C19_FirstHandlerAnswers ==
  Applied("compose") =>
    /\ output.value.handler \in {HandlerOrder[i] : i \in 1..Len(HandlerOrder)}
    /\ ConditionHolds(output.value.handler, input.tags,
                      ReferredCount(input.tags, input.history))
    /\ \A i \in 1..(HandlerPosition(output.value.handler) - 1) :
         ~ConditionHolds(HandlerOrder[i], input.tags,
                         ReferredCount(input.tags, input.history))

\* the question names a campaign, asks for a ranking and asks for a
\* recommendation: the conditions of the entity profile, of the campaign
\* ranking and of the recommendations hold, and the profile has answered
C19_Witness ==
  /\ Applied("compose")
  /\ input.tags = {"alpha", "top", "recommend"}
  /\ output.value.handler = "profile"

\* the entries of the ranked list at the indexes that are in range
Picked(ordinals, ranked) ==
  LET inRange == SelectSeq(ordinals, LAMBDA k : k + 1 <= Len(ranked))
  IN [i \in 1..Len(inRange) |-> ranked[inRange[i] + 1]]

\* C20: resolveCampaignReferences applies its steps in the order quoted
\* exact match, fuzzy token-overlap match, "those two"/"both", ordinal
\* reference, pronoun fallback, and returns the result of the first step
\* that yields at least one campaign; a later step, and so every step that
\* reads the history, counts only when all earlier steps yield nothing, and
\* when no step matches the result is the empty list.
C20_FirstStepWins ==
  Applied("resolve") =>
    output.value =
      (IF input.quoted # <<>> THEN input.quoted
       ELSE IF input.fuzzy # <<>> THEN input.fuzzy
       ELSE IF input.both /\ Len(input.ranked) >= 2 THEN SubSeq(input.ranked, 1, 2)
       ELSE IF Picked(input.ordinals, input.ranked) # <<>>
            THEN Picked(input.ordinals, input.ranked)
       ELSE IF input.pronoun /\ input.ranked # <<>> THEN <<input.ranked[1]>>
       ELSE IF input.pronoun /\ input.mentioned # <<>> THEN <<input.mentioned[1]>>
       ELSE <<>>)

\* a question with a quoted name, "both", an ordinal and a pronoun after a
\* ranked list of two other-ordered campaigns has resolved to the quoted
\* name alone
C20_Witness ==
  /\ Applied("resolve")
  /\ input.quoted = <<"c1">> /\ input.both /\ input.ordinals = <<1>> /\ input.pronoun
  /\ input.ranked = <<"c2", "c1">>
  /\ output.value = <<"c1">>

\* the names of the latest assistant turn that lists any
ChosenNames(turns) ==
  LET hits == {i \in 1..Len(turns) : turns[i].role = "assistant" /\ turns[i].names # <<>>}
  IN IF hits = {} THEN <<>>
     ELSE turns[CHOOSE i \in hits : \A j \in hits : j <= i].names

\* the ids of the imported campaigns with these names, in the order of the
\* names; a name of no campaign gives none
KnownIds(names) ==
  LET known == SelectSeq(names, LAMBDA n : n \in {"Alpha Launch", "Beta Promo"})
  IN [i \in 1..Len(known) |-> IF known[i] = "Alpha Launch" THEN "c1" ELSE "c2"]

\* C21: the ranked-list memory comes from exactly one message: scanning
\* the history from the most recent message backward, the first assistant
\* message with at least one numbered line supplies the whole ordered list
\* of names; user messages are skipped and older assistant lists are never
\* consulted, also when no name of the chosen list is a campaign of the
\* dataset, so that an ordinal or "both" then refers to nothing.
C21_MemoryFromOneMessage ==
  /\ Applied("extractRankedNames") => output.value = ChosenNames(input.turns)
  /\ Applied("resolveRanked") =>
       output.value =
         (IF input.question = "compare both"
          THEN (IF Len(KnownIds(ChosenNames(input.turns))) >= 2
                THEN SubSeq(KnownIds(ChosenNames(input.turns)), 1, 2) ELSE <<>>)
          ELSE IF KnownIds(ChosenNames(input.turns)) = <<>> THEN <<>>
          ELSE <<KnownIds(ChosenNames(input.turns))[1]>>)

\* an older assistant list of two campaigns, then an assistant list of
\* names that are no campaigns, then a numbered line of the user: the
\* memory is the list of unknown names
C21_Witness ==
  /\ Applied("extractRankedNames")
  /\ Len(input.turns) = 3
  /\ input.turns[1].names = <<"Alpha Launch", "Beta Promo">>
  /\ input.turns[2].names = <<"Gamma Sale", "Delta Push">>
  /\ input.turns[3].role = "user" /\ input.turns[3].names = <<"Beta Promo">>
  /\ output.value = <<"Gamma Sale", "Delta Push">>

\* the entries of the ranked list at the in-range indexes of named
InRangeEntries(named, ranked) == {ranked[k + 1] : k \in {x \in named : x < Len(ranked)}}

\* C22: an ordinal that points past the end of the ranked-list memory is
\* dropped silently: the ordinal step returns exactly the campaigns at the
\* in-range indexes named in the question, each once and none that is
\* absent, and when every named ordinal is out of range the step yields
\* nothing and the pronoun fallback decides.
C22_OutOfRangeDropped ==
  Applied("resolveOrdinal") =>
    /\ InRangeEntries(input.named, input.ranked) # {} =>
         /\ {output.value[i] : i \in 1..Len(output.value)}
              = InRangeEntries(input.named, input.ranked)
         /\ Len(output.value) = Cardinality(InRangeEntries(input.named, input.ranked))
    /\ InRangeEntries(input.named, input.ranked) = {} =>
         output.value =
           (IF input.pronoun /\ input.ranked # <<>> THEN <<input.ranked[1]>>
            ELSE IF input.pronoun /\ input.mentioned # <<>> THEN <<input.mentioned[1]>>
            ELSE <<>>)

\* "second", "2nd one" and "tenth" after a ranked list of two campaigns
\* have resolved to the second campaign alone
C22_Witness ==
  /\ Applied("resolveOrdinal")
  /\ input.named = {1, 9} /\ Includes(input.question, "2nd one")
  /\ Includes(input.question, "second")
  /\ input.ranked = <<"c1", "c2">>
  /\ output.value = <<"c2">>

\* the last n elements of seq
LastOf(seq, n) == SubSeq(seq, Max2(1, Len(seq) - n + 1), Len(seq))

\* C23: the engine never inspects history messages older than the last 10:
\* for two histories of up to 16 messages that agree on their last 10
\* messages, the rule-based answer to the same question over the same
\* dataset is the same, and the gateway prompt is the same.
C23_OnlyLastTen ==
  /\ Applied("twoHistories")
  /\ Len(input.history1) <= HistoryMax /\ Len(input.history2) <= HistoryMax
  /\ LastOf(input.history1, 10) = LastOf(input.history2, 10)
  => /\ output.value.answers[1] = output.value.answers[2]
     /\ output.value.prompts[1] = output.value.prompts[2]

\* C24: every ranking answer, of campaigns and of ads alike, excludes the
\* entities with no signal: a campaign or an ad whose spend, impressions
\* and clicks are all zero is never named in a ranked list, in either sort
\* order.
C24_NoSignalExcluded ==
  Applied("rank") =>
    /\ output.value.handler = (IF input.of = "ads" THEN "adRanking" ELSE "campaignRanking")
    /\ ~Includes(output.value.answer, "Zero Reach")
    /\ ~Includes(output.value.answer, "Zero Ad")

\* the first position of sub in s, 0 when it does not occur
IndexOf(s, sub) ==
  LET at == {i \in 1..(Len(s) - Len(sub) + 1) : SubSeq(s, i, i + Len(sub) - 1) = sub}
  IN IF at = {} THEN 0 ELSE CHOOSE i \in at : \A j \in at : i <= j

\* the position in rows of the row with this name
RowOf(rows, name) == CHOOSE i \in 1..Len(rows) : rows[i].name = name

\* the pairs of names of the ranked rows that have equal values of metric
TiedNames(of, metric) ==
  IF of = "ads" THEN {<<"Alpha Video", "Twin Video">>}
  ELSE {<<"Alpha Launch", "Tie Twin">>}
         \cup (IF metric = "results" THEN {<<"Beta Promo", "Zero Reach">>} ELSE {})

\* in answer the name first comes before the name second, or second is
\* not named at all
ListedFirst(answer, first, second) ==
  IndexOf(answer, second) > 0 =>
    IndexOf(answer, first) > 0 /\ IndexOf(answer, first) < IndexOf(answer, second)

\* C25: ranking is stable in both sort orders: two entities with equal
\* values of the ranking metric appear in a ranked list in their order in
\* the dataset, ascending and descending, and truncation to N keeps the
\* first N of that order, so that of two such entities the later one is
\* never listed without the earlier one.
C25_StableRanking ==
  Applied("rank") =>
    \A pair \in TiedNames(input.of, input.metric) :
      LET rows == IF input.of = "ads" THEN input.ads ELSE input.campaigns
      IN IF RowOf(rows, pair[1]) < RowOf(rows, pair[2])
         THEN ListedFirst(output.value.answer, pair[1], pair[2])
         ELSE ListedFirst(output.value.answer, pair[2], pair[1])

\* a descending ranking of three campaigns over a dataset that holds Tie
\* Twin before Alpha Launch lists both, Tie Twin first
C25_Witness ==
  /\ Applied("rank")
  /\ input.of = "campaigns" /\ input.word = "top" /\ input.count = 3
  /\ input.metric = "spend"
  /\ RowOf(input.campaigns, "Tie Twin") < RowOf(input.campaigns, "Alpha Launch")
  /\ IndexOf(output.value.answer, "Tie Twin") > 0
  /\ IndexOf(output.value.answer, "Tie Twin") < IndexOf(output.value.answer, "Alpha Launch")

\* the ads of rows that an efficiency ranking may name
Candidates(rows) ==
  {rows[i] : i \in {j \in 1..Len(rows) : rows[j].impressions >= 100 /\ rows[j].clicks > 0}}

\* the input asks for a ranking of ads by the efficiency score
RanksByEfficiency ==
  \/ input.fn = "efficiency" /\ input.asks = "ranking"
  \/ /\ input.fn = "rank" /\ input.of = "ads" /\ input.metric = "none"
     /\ (input.performing \/ input.word = "best")

Composed == output.done /\ input.fn \in {"compose", "rank", "efficiency", "odd"}

\* the question of the input meets the condition of no handler before help
MatchesNoHandler ==
  \/ input.fn = "odd" /\ input.unmatched
  \/ /\ input.fn = "compose"
     /\ \A i \in 1..(Len(HandlerOrder) - 1) :
          ~ConditionHolds(HandlerOrder[i], input.tags,
                          ReferredCount(input.tags, input.history))

\* C27: the rule-based path is total: for every question, history and
\* dataset that is not empty, buildRuleBasedAnswer returns a string that is
\* not empty, from one of its handlers, and a question that meets the
\* condition of no handler gets the help text.
C27_RuleBasedTotal ==
  Composed =>
    /\ Len(input.campaigns) > 0
    /\ output.value.handler \in {HandlerOrder[i] : i \in 1..Len(HandlerOrder)}
    /\ output.value.answer # ""
    /\ Len(output.value.answer) > 0
    /\ MatchesNoHandler =>
         output.value.handler = "help" /\ output.value.answer = HelpText

\* a question of forty unknown words, after a history of numbered lines
\* without names, over one campaign without numbers: the help text
C27_Witness ==
  /\ Applied("odd")
  /\ Len(input.question) = 120
  /\ input.history = OddHistory
  /\ input.campaigns = IdleCampaigns
  /\ output.value.answer = HelpText

\* the line of a ranked list with number k and this name, as the rankings
\* write it
ListLine(k, name) == "\n- " \o ToString(k) \o ". " \o name \o " - "

\* the names an answer lists, in the order of their numbers
ListedNames(answer, rows) ==
  LET At(k) == {i \in 1..Len(rows) : Includes(answer, ListLine(k, rows[i].name))}
      n == Cardinality({k \in 1..Len(rows) : At(k) # {}})
  IN [k \in 1..n |-> rows[CHOOSE i \in At(k) : TRUE].name]

\* the rows the ranking of the input is about
RankedRows == IF input.of = "campaigns" THEN input.campaigns ELSE input.ads

\* C28: ranking output and ranked-list memory round-trip: when the engine
\* answers a ranking question with a list of N entities and that answer is
\* the most recent assistant message of the history of the next request,
\* the ranked-list memory extracted from it is exactly those N entities in
\* the same order.
C28_RoundTrip ==
  Applied("roundTrip") =>
    output.value.memory = ListedNames(output.value.answer, RankedRows)

(***************************************************************************)
(* The dataset changes while requests are served: POST /api/upload creates *)
(* the campaigns of a file and then its ads, and prisma/clear.ts deletes   *)
(* the ads and then the campaigns, each statement on its own.              *)
(***************************************************************************)
\* the rows of an uploaded file: one campaign and its ad
UploadedCampaigns ==
  <<[id |-> "c3", name |-> "Gamma Sale", spend |-> 2000, impressions |-> 400,
     clicks |-> 8, results |-> 1, cpc |-> 250, cpm |-> 5000, platform |-> "facebook"]>>

UploadedAds ==
  <<[id |-> "a3", name |-> "Gamma Story", campaignName |-> "Gamma Sale",
     adSetName |-> "Retargeting", spend |-> 2000, impressions |-> 400,
     clicks |-> 8, results |-> 1, cpc |-> 250, cpm |-> 5000]>>

\* the names of the rows
Names(rows) == {rows[i].name : i \in 1..Len(rows)}

\* a statement of a writer settles: the dataset becomes d
Write(d) ==
  /\ db' = d
  /\ UNCHANGED <<env, pc, body, parsed, campaigns, ads, timer, aborted, responses,
                 outcome, dbReads, readFailed, httpCalls, composerRuns, input, output,
                 chatVars>>

\* db.campaign.create of the upload, for every campaign of the file
CreateCampaigns ==
  /\ Names(UploadedCampaigns) \cap Names(db.campaigns) = {}
  /\ Write([db EXCEPT !.campaigns = @ \o UploadedCampaigns])

\* db.ad.createMany of the upload, after its campaigns were created
CreateAds ==
  /\ Names(UploadedCampaigns) \subseteq Names(db.campaigns)
  /\ Names(UploadedAds) \cap Names(db.ads) = {}
  /\ Write([db EXCEPT !.ads = @ \o UploadedAds])

\* prisma.ad.deleteMany of the clear script
DeleteAds ==
  /\ db.ads # <<>>
  /\ Write([db EXCEPT !.ads = <<>>])

\* prisma.campaign.deleteMany of the clear script, after the ads were deleted
DeleteCampaigns ==
  /\ db.ads = <<>>
  /\ db.campaigns # <<>>
  /\ Write([db EXCEPT !.campaigns = <<>>])

\* the requests that are served while the dataset changes
DatasetBodies ==
  {JsonBody(Str("how many ads"), NoHistory), JsonBody(Str("best ad by spend"), NoHistory)}

\* a step of POST /api/chat with no gateway configured
DatasetStep(r) ==
  /\ \/ \E b \in DatasetBodies : Receive(r, b)
     \/ Validate(r)
     \/ \E ok \in BOOLEAN : ReadCampaigns(r, ok)
     \/ \E ok \in BOOLEAN : ReadAds(r, ok)
     \/ AnswerSettles(r)
  /\ UNCHANGED <<input, output, chatVars>>

DatasetInit == Init /\ env = Env("", "", "")

DatasetNext ==
  \/ \E r \in Requests : DatasetStep(r)
  \/ CreateCampaigns
  \/ CreateAds
  \/ DeleteAds
  \/ DeleteCampaigns

DatasetSpec == DatasetInit /\ [][DatasetNext]_vars

\* every ad of the rows a belongs to a campaign of the rows c, as in every
\* state of the dataset: ads are created after their campaigns and deleted
\* before them
IsSnapshot(c, a) ==
  \A i \in 1..Len(a) : a[i].campaignName \in Names(c)

\* request r has read both tables
HasReadBoth(r) ==
  pc[r] \in {"awaitAnswer", "done"} /\ dbReads[r] = 2 /\ ~readFailed[r]

\* C29: the campaign rows and the ad rows of one request come from the same
\* dataset snapshot: with an upload or a clear concurrent with a chat
\* request, the request never answers from campaigns read before the change
\* with ads read after it; the rows it read are rows the dataset held
\* together.
C29_SameSnapshot ==
  \A r \in Requests : HasReadBoth(r) => IsSnapshot(campaigns[r], ads[r])

(***************************************************************************)
(* The chat panel of the dashboard: sendChatMessage, one step per stretch  *)
(* of code between two awaits, and the input field.                        *)
(***************************************************************************)
\* the number of questions the user sends
MaxSends == 6

\* the texts the user leaves in the input field
ChatTexts == {"", "   ", "  top 3 "}

\* what fetch('/api/chat') resolves with: res.ok, whether the body is JSON,
\* and data.answer and data.error ("" when the field is missing)
ChatResponse(ok, parses, answer, error) ==
  [ok |-> ok, parses |-> parses, answer |-> answer, error |-> error]

NoChatResponse == ChatResponse(FALSE, FALSE, "", "")

ChatResponses ==
  {ChatResponse(TRUE, TRUE, "Overall CTR is 2.00% (clicks / impressions).", ""),
   ChatResponse(FALSE, TRUE, "", "Validation error"),
   ChatResponse(FALSE, TRUE, "", ""),
   ChatResponse(FALSE, FALSE, "", "")}

\* the messages of the panel that are user messages
UserMessages == {i \in 1..Len(chatMessages) : chatMessages[i].role = "user"}

\* onChange of the input field, which is disabled while chatLoading
TypeText(text) ==
  /\ ~chatLoading
  /\ Cardinality(UserMessages) < MaxSends
  /\ chatInput' = text
  /\ UNCHANGED <<chatMessages, chatLoading, chatRequests, vars, input, output>>

\* chatMessages.slice(-10) without the cut
WholeHistory(messages) == messages

\* chatMessages.slice(-10)
ChatHistory(messages) ==
  SubSeq(messages, Max2(1, Len(messages) - 9), Len(messages))

\* the message of the catch block
FailureNotice(message) ==
  Message("assistant", "I couldn't answer that right now: " \o message)

\* the sequence without its element at position k
Without(seq, k) == SubSeq(seq, 1, k - 1) \o SubSeq(seq, k + 1, Len(seq))

\* sendChatMessage up to await fetch(...): Enter in the input field or a
\* click on Send
sendChatMessage ==
  LET question == Trim(chatInput)
  IN /\ IF question = "" \/ chatLoading
        THEN UNCHANGED chatVars
        ELSE /\ chatMessages' = Append(chatMessages, Message("user", question))
             /\ chatInput' = ""
             /\ chatLoading' = TRUE
             /\ chatRequests' =
                  Append(chatRequests,
                         [question |-> question, history |-> ChatHistory(chatMessages),
                          at |-> "fetch", res |-> NoChatResponse])
     /\ UNCHANGED <<vars, input, output>>

\* the end of a call: the message of the try or of the catch block, and
\* finally setChatLoading(false)
ChatReturns(k, message) ==
  /\ chatMessages' = Append(chatMessages, message)
  /\ chatLoading' = FALSE
  /\ chatRequests' = Without(chatRequests, k)
  /\ UNCHANGED <<chatInput, vars, input, output>>

\* await fetch(...) settles with a response; res.json() is called
ChatFetchResolves(k, res) ==
  /\ chatRequests[k].at = "fetch"
  /\ chatRequests' = [chatRequests EXCEPT ![k].at = "json", ![k].res = res]
  /\ UNCHANGED <<chatMessages, chatInput, chatLoading, vars, input, output>>

\* await fetch(...) rejects: a network error
ChatFetchRejects(k) ==
  /\ chatRequests[k].at = "fetch"
  /\ ChatReturns(k, FailureNotice("Failed to fetch"))

\* await res.json() settles: the answer, the error of a response that is
\* not ok, or the error of a body that is not JSON
ChatJsonSettles(k) ==
  LET res == chatRequests[k].res
  IN /\ chatRequests[k].at = "json"
     /\ IF ~res.parses
        THEN ChatReturns(k, FailureNotice("Unexpected token < in JSON at position 0"))
        ELSE IF ~res.ok
        THEN ChatReturns(k, FailureNotice(IF res.error # "" THEN res.error
                                          ELSE "Failed to get answer"))
        ELSE ChatReturns(k, Message("assistant", res.answer))

ChatCalls == 1..Len(chatRequests)

ChatNext ==
  \/ \E text \in ChatTexts : TypeText(text)
  \/ sendChatMessage
  \/ \E k \in ChatCalls : \E res \in ChatResponses : ChatFetchResolves(k, res)
  \/ \E k \in ChatCalls : ChatFetchRejects(k)
  \/ \E k \in ChatCalls : ChatJsonSettles(k)

\* the panel with no request served yet
ChatPanelInit == Init /\ env = Env("", "", "") /\ db.campaigns = <<>>

\* every fetch settles and every body is read to its end
ChatSpec ==
  /\ ChatPanelInit
  /\ [][ChatNext]_<<chatVars, vars, input, output>>
  /\ WF_chatVars(\E k \in ChatCalls :
                   \/ ChatFetchRejects(k)
                   \/ \E res \in ChatResponses : ChatFetchResolves(k, res))
  /\ WF_chatVars(\E k \in ChatCalls : ChatJsonSettles(k))

\* the messages of the panel: the greeting, then a user message and an
\* assistant message in turn, the last user message without its answer
\* exactly while a request is under way
ChatShape ==
  /\ chatMessages[1] = Greeting
  /\ \A i \in 2..Len(chatMessages) :
       chatMessages[i].role = (IF i % 2 = 0 THEN "user" ELSE "assistant")
  /\ chatLoading <=> (Len(chatMessages) % 2 = 0)
  /\ chatLoading <=> (chatRequests # <<>>)
  /\ Len(chatRequests) <= 1

\* the request under way carries the question that was appended last and
\* the at most 10 messages before it
ChatRequestShape ==
  \A k \in ChatCalls :
    LET before == SubSeq(chatMessages, 1, Len(chatMessages) - 1)
    IN /\ chatRequests[k].question = chatMessages[Len(chatMessages)].content
       /\ Len(chatRequests[k].history) <= 10
       /\ chatRequests[k].history = LastOf(before, 10)

\* a step appends one message or none, and none of the user while a
\* request is under way
ChatStepShape ==
  /\ \/ chatMessages' = chatMessages
     \/ /\ Len(chatMessages') = Len(chatMessages) + 1
        /\ SubSeq(chatMessages', 1, Len(chatMessages)) = chatMessages
  /\ chatLoading => UserMessages' = UserMessages

\* C30: in the chat of the dashboard, every accepted send appends exactly
\* one user message and is eventually followed by exactly one assistant
\* message (the answer, or a failure notice after a response that is not
\* 2xx or a network error), after which chatLoading is false again; a send
\* while an earlier request is under way is ignored, so that at most one
\* request is outstanding; and the history sent is the at most 10 messages
\* that precede the new question.
C30_ChatExchange ==
  /\ [](ChatShape /\ ChatRequestShape)
  /\ [][ChatStepShape]_chatVars
  /\ \A n \in 1..MaxSends :
       (Len(chatMessages) = 2 * n)
         ~> (Len(chatMessages) = 2 * n + 1 /\ ~chatLoading)

\* the sixth question is under way, with the last ten of the eleven
\* messages before it, one of them a failure notice
C30_Witness ==
  /\ chatLoading
  /\ Len(chatMessages) = 12
  /\ Len(chatRequests) = 1
  /\ chatRequests[1].history = SubSeq(chatMessages, 2, 11)
  /\ \E i \in 2..11 : chatMessages[i] = FailureNotice("Validation error")

=============================================================================
